---- MODULE Spec2Model ----
(***************************************************************************)
(* Hulotte project generator (create_project.py): argument handling,      *)
(* prompting, synthesis of the project files, and the behaviour of the     *)
(* generated build descriptor (CMakeLists.txt) and build script (build.sh) *)
(* when they are run; and the Hulotte dependencies installer               *)
(* (install_dependencies.py): prerequisites, the acquisition of AFF3CT     *)
(* and of StreamPU, and the exit status.                                   *)
(*                                                                         *)
(* Text is modelled structurally: a project name is a sequence of          *)
(* one-character strings, a generated file is the sequence of statements   *)
(* or lines its generator emits, and a Python value that may be None is    *)
(* an option: <<>> for None, <<v>> for the value v.                        *)
(***************************************************************************)
EXTENDS Integers, Sequences, FiniteSets, TLC

VARIABLES
    args,          \* argparse namespace of __main__
    cwd,           \* working directory of the run (Path.cwd())
    fs,            \* files and directories that exist outside the project
    pc,            \* position in __main__ / create_project
    ask,           \* position inside the ask_path / ask_*_root loops
    prompted,      \* fields for which input() has been called
    project_name,  \* locals of create_project, None until assigned
    output_dir,
    streampu_dir,
    aff3ct_dir,
    use_aff3ct,
    use_custom,
    dirs,          \* directories created under the project directory
    files,         \* files written under the project directory
    result,        \* return value of create_project
    build,         \* state of <project>/build: runs of build.sh so far
    last,          \* outcome of the latest run of build.sh
    exit_code,     \* status passed to sys.exit by either tool, None while running
    which,         \* install_dependencies.py: the binaries found on the PATH
    cpu_count,     \* what os.cpu_count() returns on this machine
    tree,          \* paths that exist below hulotte_root
    ipc,           \* position in install_dependencies.main
    stage,         \* position inside install_aff3ct / install_streampu
    tag,           \* aff3ct_tag / streampu_tag of the running install
    venv_dir,      \* locals of install_dependencies.main
    aff3ct_info,
    streampu_info,
    surfer_path,
    log,           \* what install_dependencies.main has done so far, in order
    trace          \* what the running install_* function has done so far

locals == <<project_name, output_dir, streampu_dir, aff3ct_dir, use_aff3ct, use_custom>>
disk == <<dirs, files>>
env == <<args, cwd, fs>>
\* the state of create_project.py and of the project it generates
synthesizer == <<args, cwd, fs, pc, ask, prompted, project_name, output_dir,
                 streampu_dir, aff3ct_dir, use_aff3ct, use_custom, dirs, files,
                 result, build, last>>
\* the state of install_dependencies.py
installer == <<which, cpu_count, tree, ipc, stage, tag, venv_dir, aff3ct_info,
               streampu_info, surfer_path, log, trace>>
vars == <<synthesizer, installer, exit_code>>

(***************************************************************************)
(* Python values                                                           *)
(***************************************************************************)
None == <<>>
Some(v) == <<v>>
Val(o) == o[1]

\* str(x) as an f-string embeds it: None becomes the text "None"
FStr(o) ==
    IF o = None THEN "None" ELSE Val(o)

\* bool(x) of an optional string: None and "" are false
Truthy(o) ==
    o # None /\ Val(o) # ""

\* bool(x) of an optional project name: None and the empty name are false
TruthyName(o) ==
    o # None /\ Val(o) # <<>>

(***************************************************************************)
(* Bounds and input sets                                                   *)
(***************************************************************************)
\* how many times build.sh is run on one generated project
MaxBuildRuns == 2

\* characters: an ASCII letter, an ASCII digit, underscore, hyphen, blank,
\* and a non-ASCII letter (e with acute accent)
Letter == "a"
Digit == "7"
NonAscii == "U+00E9"
Blank == " "

DefaultName == <<"m","y","_","s","p","u","_","p","r","o","j","e","c","t">>
Demo == <<"d","e","m","o">>

\* project names given on the command line or typed at the name prompt
Names == { <<>>, Demo, <<Letter, Blank, Letter>>, <<Blank>>, <<"_", "-">>,
           <<Letter, "-", Digit>>, <<NonAscii>> }

\* the directories a run may be started in, and one other directory
Cwds == {"/w", "/v"}
OtherRoot == "/s"

LibStreampu == "build/lib/libstreampu.a"
HdrAff3ct == "include/aff3ct.hpp"
LibAff3ct == "build/lib/libaff3ct-4.1.0.a"
Artifacts == {LibStreampu, HdrAff3ct, LibAff3ct}

\* a path is <<directory, file below it>>; <<d, "">> is the directory itself
Dir(d) == <<d, "">>

\* what is typed at a path prompt: nothing, or the other directory
PathResponses == {"", OtherRoot}
\* what is typed at a yes/no prompt ("x" is neither)
YesNoResponses == {"y", "yes", "n", "no", "", "x"}

(***************************************************************************)
(* pathlib                                                                 *)
(***************************************************************************)
\* Path(p).resolve(): the empty path and "." are the working directory
Resolve(p) ==
    IF p \in {"", "."} THEN cwd ELSE p

Exists(d, rel) ==
    <<Resolve(d), rel>> \in fs

(***************************************************************************)
(* str methods used by ask_name                                            *)
(***************************************************************************)
AsciiLetters == {"a","b","c","d","e","j","m","o","p","r","s","t","u","y"}
Digits == {"0","1","2","7"}

\* str.isalnum() of one character: letters and digits of any script
IsAlnumChar(c) ==
    c \in AsciiLetters \cup Digits \cup {NonAscii}

\* s.isalnum(): non-empty and every character alphanumeric
IsAlnum(s) ==
    s # <<>> /\ \A i \in DOMAIN s : IsAlnumChar(s[i])

\* s.replace(c, "")
Replace(s, c) ==
    SelectSeq(s, LAMBDA x : x # c)

RECURSIVE LStrip(_)
LStrip(s) ==
    IF s # <<>> /\ Head(s) = Blank THEN LStrip(Tail(s)) ELSE s

RECURSIVE RStrip(_)
RStrip(s) ==
    IF s # <<>> /\ s[Len(s)] = Blank THEN RStrip(SubSeq(s, 1, Len(s) - 1)) ELSE s

\* s.strip()
Strip(s) ==
    RStrip(LStrip(s))

\* the test of ask_name on a response: non-empty, and alphanumeric once
\* underscores and hyphens are removed
NameAccepted(response) ==
    response # <<>> /\ IsAlnum(Replace(Replace(response, "_"), "-"))

\* the response ask_name examines: stripped, the default when empty
NameResponse(typed, default) ==
    LET response == Strip(typed)
    IN  IF default # <<>> /\ response = <<>> THEN default ELSE response

(***************************************************************************)
(* create_cmakelists: the build descriptor as the sequence of CMake        *)
(* statements it holds.  A statement is [op, a, b]: the command, the       *)
(* variable, keyword or target suffix it is about, and its remaining       *)
(* arguments.  An if statement carries the variable of its condition in a, *)
(* and the kind of condition and its two branches in b.                    *)
(***************************************************************************)
Stmt(op, a, b) == [op |-> op, a |-> a, b |-> b]

\* if(EXISTS "${var}/rel") ... else() ... endif()
IfExists(var, rel, then, else) ==
    Stmt("if", var, [kind |-> "EXISTS", rel |-> rel, then |-> then, else |-> else])

\* if(var) ... else() ... endif()
IfVar(var, then, else) ==
    Stmt("if", var, [kind |-> "VAR", rel |-> "", then |-> then, else |-> else])

\* the include directories of a standalone StreamPU
StandaloneIncludes ==
    << Stmt("set", "STREAMPU_INCLUDE_DIRS",
            << <<"STREAMPU_ROOT", "include">>, <<"STREAMPU_ROOT", "src">>,
               <<"STREAMPU_ROOT", "lib/rang/include">>,
               <<"STREAMPU_ROOT", "lib/json/include">> >>),
       Stmt("include_directories", "STREAMPU_INCLUDE_DIRS", <<>>) >>

\* mutant: the missing library is reported as a warning only
RequireStreampuLib_WarnOnly ==
    << IfExists("STREAMPU_ROOT", LibStreampu,
          << Stmt("set", "HULOTTE_LIBS", << <<"STREAMPU_ROOT", LibStreampu>> >>) >>,
          << Stmt("message", "WARNING", <<"STREAMPU_ROOT", LibStreampu>>) >>) >>

\* if(EXISTS libstreampu.a) set(HULOTTE_LIBS ...) else() message(FATAL_ERROR ...)
RequireStreampuLib ==
    << IfExists("STREAMPU_ROOT", LibStreampu,
          << Stmt("set", "HULOTTE_LIBS", << <<"STREAMPU_ROOT", LibStreampu>> >>) >>,
          << Stmt("message", "FATAL_ERROR", <<"STREAMPU_ROOT", LibStreampu>>) >>) >>

\* the section emitted when use_aff3ct (lines 250-300)
Aff3ctSection ==
    << Stmt("set", "AFF3CT_INCLUDE_DIRS",
            << <<"AFF3CT_ROOT", "include">>, <<"AFF3CT_ROOT", "src">>,
               <<"AFF3CT_ROOT", "lib/MIPP/src">>, <<"AFF3CT_ROOT", "lib/cli/src">>,
               <<"AFF3CT_ROOT", "lib/date/include/date">> >>),
       Stmt("include_directories", "AFF3CT_INCLUDE_DIRS", <<>>),
       Stmt("file_glob", "AFF3CT_LIBRARY", <<"AFF3CT_ROOT", "build/lib/libaff3ct*.a">>),
       IfVar("AFF3CT_LIBRARY",
          << Stmt("message", "STATUS", <<"AFF3CT_LIBRARY", "">>),
             Stmt("set", "STREAMPU_INCLUDE_DIRS",
                  << <<"AFF3CT_ROOT", "lib/streampu/include">>,
                     <<"AFF3CT_ROOT", "lib/streampu/lib/rang/include">>,
                     <<"AFF3CT_ROOT", "lib/streampu/lib/json/include">> >>),
             Stmt("include_directories", "STREAMPU_INCLUDE_DIRS", <<>>),
             Stmt("set", "HULOTTE_LIBS", << <<"AFF3CT_LIBRARY", "">> >>),
             Stmt("add_definitions", "-DHULOTTE_USE_AFF3CT", <<>>),
             Stmt("add_definitions", "-DAFF3CT_POLAR_BIT_PACKING", <<>>),
             Stmt("add_definitions", "-DAFF3CT_MULTI_PREC", <<>>) >>,
          << Stmt("message", "WARNING", <<"AFF3CT_LIBRARY", "">>) >>
             \o StandaloneIncludes \o RequireStreampuLib) >>

\* the section emitted otherwise (lines 303-319)
StreampuSection ==
    StandaloneIncludes \o RequireStreampuLib

CpptraceSection ==
    << Stmt("find_library", "CPPTRACE_LIBRARY",
            <<"STREAMPU_ROOT", "build/lib/cpptrace/lib/libcpptrace.a">>),
       IfVar("CPPTRACE_LIBRARY",
          << Stmt("list_append", "HULOTTE_LIBS", << <<"CPPTRACE_LIBRARY", "">> >>),
             Stmt("include_directories", "STREAMPU_ROOT", <<"lib/cpptrace/include">>) >>,
          <<>>),
       Stmt("add_definitions", "-DHULOTTE_USE_STREAMPU", <<>>) >>

\* a target is the project name and a suffix: {project_name}, {project_name}_custom
Target(name, suffix) == [name |-> name, suffix |-> suffix]
\* a library operand that is no target of the project: ${HULOTTE_LIBS}
HulotteLibs == [name |-> <<>>, suffix |-> "${HULOTTE_LIBS}"]

\* the project sources when use_custom (lines 338-348)
CustomSources(name) ==
    << Stmt("add_library", "_custom",
            [target |-> Target(name, "_custom"), sources |-> <<"src/custom/MyModule.cpp">>]),
       Stmt("target_include_directories", "_custom",
            [target |-> Target(name, "_custom"), dirs |-> <<"src">>]),
       Stmt("target_link_libraries", "_custom",
            [target |-> Target(name, "_custom"), libs |-> <<HulotteLibs>>]),
       Stmt("add_executable", "", [target |-> Target(name, ""), sources |-> <<"src/main.cpp">>]),
       Stmt("target_link_libraries", "", [target |-> Target(name, ""), libs |-> <<Target(name, "_custom")>>]) >>

\* the project sources otherwise (lines 350-353)
PlainSources(name) ==
    << Stmt("add_executable", "", [target |-> Target(name, ""), sources |-> <<"src/main.cpp">>]),
       Stmt("target_link_libraries", "", [target |-> Target(name, ""), libs |-> <<HulotteLibs>>]) >>

create_cmakelists(name, hulotte_path, streampu_path, aff3ct_path, with_aff3ct, with_custom) ==
    << Stmt("cmake_minimum_required", "VERSION", "3.10"),
       Stmt("project", "", [target |-> Target(name, ""), languages |-> <<"CXX">>]),
       Stmt("set", "CMAKE_CXX_STANDARD", "11"),
       Stmt("set", "CMAKE_CXX_STANDARD_REQUIRED", "ON"),
       Stmt("set_cache", "STREAMPU_ROOT", FStr(streampu_path)) >>
    \o (IF with_aff3ct THEN << Stmt("set_cache", "AFF3CT_ROOT", FStr(aff3ct_path)) >> ELSE <<>>)
    \o << Stmt("set_cache", "HULOTTE_ROOT", hulotte_path) >>
    \o (IF with_aff3ct THEN Aff3ctSection ELSE StreampuSection)
    \o CpptraceSection
    \o (IF with_custom THEN CustomSources(name) ELSE PlainSources(name))

(***************************************************************************)
(* create_main_cpp: the entry-point source as its include lines, the       *)
(* modules it instantiates (in order), the socket bindings "out = in" it   *)
(* makes (in order), and the first task of the sequence.                   *)
(***************************************************************************)
Bind(from, out, to, in) == [from |-> from, out |-> out, to |-> to, in |-> in]

\* mutant: the second library's header is included whatever the toggle
main_includes_AlwaysAff3ct(with_custom, with_aff3ct) ==
    <<"<iostream>", "<vector>", "<fstream>", "<streampu.hpp>", "<aff3ct.hpp>">>
    \o (IF with_custom THEN <<"custom/MyModule.hpp">> ELSE <<>>)

\* lines 360-369
main_includes(with_custom, with_aff3ct) ==
    <<"<iostream>", "<vector>", "<fstream>", "<streampu.hpp>">>
    \o (IF with_aff3ct THEN <<"<aff3ct.hpp>">> ELSE <<>>)
    \o (IF with_custom THEN <<"custom/MyModule.hpp">> ELSE <<>>)

Module(type, name) == [type |-> type, name |-> name]

\* lines 375-399 and 431-440
main_modules(with_custom, with_aff3ct) ==
    (IF with_aff3ct
     THEN << Module("module::Source_random", "source"),
             Module("module::Finalizer", "finalizer"),
             Module("aff3ct::tools::RS_polynomial_generator", "poly"),
             Module("aff3ct::module::Encoder_RS", "encoder"),
             Module("aff3ct::module::Decoder_RS_std", "decoder") >>
     ELSE << Module("module::Initializer", "initializer"),
             Module("module::Incrementer", "incrementer"),
             Module("module::Finalizer", "finalizer") >>)
    \o (IF with_custom THEN << Module("module::MyModule", "my_module") >> ELSE <<>>)

\* mutant: the custom module is bound without removing the direct binding
main_sockets_bind_NotRewired(with_custom, with_aff3ct) ==
    (IF with_aff3ct
     THEN << Bind("source", "generate::out_data", "encoder", "encode::U_K"),
             Bind("encoder", "encode::X_N", "decoder", "decode_hiho::Y_N"),
             Bind("decoder", "decode_hiho::V_K", "finalizer", "finalize::in") >>
     ELSE << Bind("initializer", "initialize::out", "incrementer", "increment::in"),
             Bind("incrementer", "increment::out", "finalizer", "finalize::in") >>)
    \o (IF with_custom /\ with_aff3ct
        THEN << Bind("source", "generate::out_data", "my_module", "process::in"),
                Bind("my_module", "process::out", "encoder", "encode::U_K") >>
        ELSE IF with_custom
        THEN << Bind("incrementer", "increment::out", "my_module", "process::in"),
                Bind("my_module", "process::out", "finalizer", "finalize::in") >>
        ELSE <<>>)

\* lines 401-427 and 442-453
main_sockets_bind(with_custom, with_aff3ct) ==
    IF with_aff3ct
    THEN IF with_custom
         THEN << Bind("source", "generate::out_data", "my_module", "process::in"),
                 Bind("my_module", "process::out", "encoder", "encode::U_K"),
                 Bind("encoder", "encode::X_N", "decoder", "decode_hiho::Y_N"),
                 Bind("decoder", "decode_hiho::V_K", "finalizer", "finalize::in") >>
         ELSE << Bind("source", "generate::out_data", "encoder", "encode::U_K"),
                 Bind("encoder", "encode::X_N", "decoder", "decode_hiho::Y_N"),
                 Bind("decoder", "decode_hiho::V_K", "finalizer", "finalize::in") >>
    ELSE IF with_custom
         THEN << Bind("initializer", "initialize::out", "incrementer", "increment::in"),
                 Bind("incrementer", "increment::out", "my_module", "process::in"),
                 Bind("my_module", "process::out", "finalizer", "finalize::in") >>
         ELSE << Bind("initializer", "initialize::out", "incrementer", "increment::in"),
                 Bind("incrementer", "increment::out", "finalizer", "finalize::in") >>

create_main_cpp(with_custom, with_aff3ct) ==
    [includes |-> main_includes(with_custom, with_aff3ct),
     modules |-> main_modules(with_custom, with_aff3ct),
     sockets_bind |-> main_sockets_bind(with_custom, with_aff3ct),
     first_task |-> IF with_aff3ct THEN <<"source", "generate">>
                    ELSE <<"initializer", "initialize">>]

(***************************************************************************)
(* create_custom_module: the header and the implementation of MyModule     *)
(***************************************************************************)
create_custom_module ==
    [header |-> [class |-> "MyModule", base |-> "Stateful",
                 includes |-> <<"<streampu.hpp>">>,
                 methods |-> <<"MyModule", "clone", "_process">>],
     implementation |-> [includes |-> <<"MyModule.hpp", "<algorithm>", "<iostream>">>,
                         task |-> "process", sockets |-> <<"in", "out">>,
                         clone |-> "deep_copy", process |-> "std::copy(in, out)"]]

(***************************************************************************)
(* The build script (lines 701-726) as its commands in order, and the      *)
(* README (lines 734-766).  A -D argument is <<variable, value>>.          *)
(***************************************************************************)
Cmd(cmd, a) == [cmd |-> cmd, a |-> a]

gitignore ==
    <<"build/", "*.a", "*.o", "*.so", "*.dylib", "*.exe", ".DS_Store",
      "cmake-build-debug/", "cmake-build-release/", ".idea/", ".vscode/">>

\* the -D arguments of the cmake command line of build.sh and of the README
cmake_args(streampu, aff3ct, hulotte) ==
    << <<"STREAMPU_ROOT", FStr(streampu)>>,
       <<"AFF3CT_ROOT", FStr(aff3ct)>>,
       <<"HULOTTE_ROOT", hulotte>> >>

build_script(name, streampu, aff3ct, hulotte) ==
    << Cmd("mkdir -p", "build"),
       Cmd("cd", "build"),
       Cmd("cmake", cmake_args(streampu, aff3ct, hulotte)
                    \o << <<"CMAKE_BUILD_TYPE", "Release">> >>),
       Cmd("make", "-j"),
       Cmd("if $? -eq 0",
           [then |-> << Cmd("echo", "Build successful!"), Cmd("echo", name) >>,
            else |-> << Cmd("echo", "Build failed"), Cmd("exit", 1) >>]) >>

CheckMark == "U+2713"
CrossMark == "U+2717"

readme(name, streampu, aff3ct, hulotte, with_aff3ct, with_custom) ==
    [title |-> name,
     build |-> << Cmd("./build.sh", "") >>,
     manual |-> << Cmd("mkdir", "build"), Cmd("cd", "build"),
                   Cmd("cmake", cmake_args(streampu, aff3ct, hulotte)),
                   Cmd("make", "-j") >>,
     run |-> name,
     features |-> [streampu |-> CheckMark,
                   aff3ct |-> IF with_aff3ct THEN CheckMark ELSE CrossMark,
                   custom |-> IF with_custom THEN CheckMark ELSE CrossMark]]

(***************************************************************************)
(* Running the generated files: CMake's configure step on the build        *)
(* descriptor, and bash on the build script.                               *)
(***************************************************************************)
\* the files below dir that a glob pattern or a library search matches
GlobMatches(pattern) ==
    IF pattern = "build/lib/libaff3ct*.a" THEN {LibAff3ct} ELSE {}

RECURSIVE SetToSeq(_)
SetToSeq(S) ==
    IF S = {} THEN <<>> ELSE LET x == CHOOSE y \in S : TRUE IN <<x>> \o SetToSeq(S \ {x})

Glob(dir, pattern) ==
    SetToSeq({ <<dir, rel>> : rel \in { r \in GlobMatches(pattern) : <<dir, r>> \in fs } })

\* CMake variables: a function from the names defined to lists of values
Define(cvars, name, value) ==
    [v \in DOMAIN cvars \cup {name} |-> IF v = name THEN value ELSE cvars[v]]

\* ${var} as a directory: the first value, no directory when undefined
DirOf(cvars, var) ==
    IF var \in DOMAIN cvars /\ cvars[var] # <<>> THEN cvars[var][1] ELSE ""

\* the condition of an if statement
CondHolds(s, cvars) ==
    IF s.b.kind = "EXISTS"
    THEN <<DirOf(cvars, s.a), s.b.rel>> \in fs
    ELSE s.a \in DOMAIN cvars /\ cvars[s.a] # <<>>

\* executes statements in order; message(FATAL_ERROR) stops the processing
RECURSIVE ExecStmts(_, _)
ExecStmts(stmts, st) ==
    IF stmts = <<>> \/ st.fatal THEN st
    ELSE LET s == Head(stmts)
             after ==
                 IF s.op = "set_cache"
                 THEN IF s.a \in DOMAIN st.vars THEN st
                      ELSE [st EXCEPT !.vars = Define(st.vars, s.a, <<s.b>>)]
                 ELSE IF s.op = "file_glob"
                 THEN [st EXCEPT !.vars = Define(st.vars, s.a,
                                                 Glob(DirOf(st.vars, s.b[1]), s.b[2]))]
                 ELSE IF s.op = "find_library"
                 THEN [st EXCEPT !.vars = Define(st.vars, s.a,
                           IF <<DirOf(st.vars, s.b[1]), s.b[2]>> \in fs
                           THEN << <<DirOf(st.vars, s.b[1]), s.b[2]>> >> ELSE <<>>)]
                 ELSE IF s.op = "if"
                 THEN ExecStmts(IF CondHolds(s, st.vars) THEN s.b.then ELSE s.b.else, st)
                 ELSE IF s.op = "message" /\ s.a = "FATAL_ERROR"
                 THEN [st EXCEPT !.fatal = TRUE]
                 ELSE st
         IN  ExecStmts(Tail(stmts), after)

RECURSIVE DefineAll(_, _)
DefineAll(cvars, defs) ==
    IF defs = <<>> THEN cvars
    ELSE DefineAll(Define(cvars, Head(defs)[1], <<Head(defs)[2]>>), Tail(defs))

\* cmake .. -Dvar=value ...: TRUE when the configure step ends in a fatal error
ConfigureFatal(cmake, defs) ==
    ExecStmts(cmake, [vars |-> DefineAll(<<>>, defs), fatal |-> FALSE]).fatal

\* bash without "set -e": every command runs, $? is the status of the last
\* one, the script's exit status is that of "exit n" or of its last command
RECURSIVE RunCmds(_, _, _)
RunCmds(cmds, status, sh) ==
    IF cmds = <<>> \/ sh.exited THEN sh
    ELSE LET c == Head(cmds)
             after ==
                 IF c.cmd = "if $? -eq 0"
                 THEN RunCmds(IF sh.status = 0 THEN c.a.then ELSE c.a.else, status,
                              [sh EXCEPT !.status = 0])
                 ELSE IF c.cmd = "exit"
                 THEN [sh EXCEPT !.status = c.a, !.exited = TRUE]
                 ELSE IF c.cmd \in DOMAIN status
                 THEN [sh EXCEPT !.status = status[c.cmd]]
                 ELSE [sh EXCEPT !.status = 0]
         IN  RunCmds(Tail(cmds), status, after)

\* exit status of the script when cmake and make end with the given statuses
RunScript(script, status) ==
    RunCmds(script, status, [status |-> 0, exited |-> FALSE]).status

(***************************************************************************)
(* Prompt helpers                                                          *)
(***************************************************************************)
\* ask_yes_no on one response: the answer, or None when the question repeats
ask_yes_no(response, default) ==
    IF response \in {"y", "yes"} THEN Some(TRUE)
    ELSE IF response \in {"n", "no"} THEN Some(FALSE)
    ELSE IF response = "" THEN Some(default)
    ELSE None

Idle == [at |-> "idle", path |-> ""]

\* file modes: plain files, and build.sh after os.chmod(build_script_path, 0o755)
ModePlain == "0o644"
ModeExec == "0o755"

Put(fmap, path, content, mode) ==
    [f \in DOMAIN fmap \cup {path} |->
        IF f = path THEN [content |-> content, mode |-> mode] ELSE fmap[f]]

(***************************************************************************)
(* Initial states: a command line, a working directory, a filesystem       *)
(***************************************************************************)
ArgSpace ==
    [name : {None} \cup {Some(n) : n \in Names},
     aff3ct : BOOLEAN,
     no_custom : BOOLEAN,
     streampu_root : {None, Some(OtherRoot)},
     aff3ct_root : {None, Some(OtherRoot)}]

\* the working directory (the Hulotte checkout) exists and holds no artifact;
\* the other directory may exist, and then holds any of the artifacts
FsStates(wd) ==
    { {Dir(wd)} \cup D2 :
        D2 \in {{}} \cup { {Dir(OtherRoot)} \cup { <<OtherRoot, a>> : a \in A2 } :
                            A2 \in SUBSET Artifacts } }

\* install_dependencies.py is not running
InstallerOff ==
    /\ which = {}
    /\ cpu_count = None
    /\ tree = {}
    /\ ipc = "off"
    /\ stage = ""
    /\ tag = None
    /\ venv_dir = None
    /\ aff3ct_info = None
    /\ streampu_info = None
    /\ surfer_path = None
    /\ log = <<>>
    /\ trace = <<>>

Init ==
    /\ InstallerOff
    /\ exit_code = None
    /\ args \in ArgSpace
    /\ cwd \in Cwds
    /\ fs \in FsStates(cwd)
    /\ pc = "main"
    /\ ask = Idle
    /\ prompted = {}
    /\ project_name = None
    /\ output_dir = None
    /\ streampu_dir = None
    /\ aff3ct_dir = None
    /\ use_aff3ct = None
    /\ use_custom = None
    /\ dirs = {}
    /\ files = <<>>
    /\ result = None
    /\ build = [runs |-> 0, makefile |-> FALSE]
    /\ last = [cmake |-> 0, make |-> 0, fatal |-> FALSE, exit |-> 0]

(***************************************************************************)
(* __main__ (lines 790-812): the toggles from the flags and the name       *)
(***************************************************************************)
main ==
    /\ pc = "main"
    /\ use_custom' = IF args.no_custom THEN Some(FALSE)
                     ELSE IF TruthyName(args.name) THEN Some(TRUE) ELSE None
    /\ use_aff3ct' = IF args.aff3ct THEN Some(TRUE)
                     ELSE IF TruthyName(args.name) THEN Some(FALSE) ELSE None
    /\ project_name' = args.name
    /\ pc' = "project_name"
    /\ UNCHANGED <<env, installer, exit_code,
                   ask, prompted, output_dir, streampu_dir, aff3ct_dir, disk,
                   result, build, last>>

(***************************************************************************)
(* create_project, gathering input (lines 586-633)                         *)
(***************************************************************************)
\* lines 586-587, ask_name (lines 209-222): one response per step
ask_project_name ==
    /\ pc = "project_name"
    /\ IF project_name = None
       THEN \E typed \in Names :
              LET response == NameResponse(typed, DefaultName)
              IN  /\ prompted' = prompted \cup {"project_name"}
                  /\ IF NameAccepted(response)
                     THEN project_name' = Some(response) /\ pc' = "output_dir"
                     ELSE UNCHANGED <<project_name, pc>>
       ELSE /\ pc' = "output_dir"
            /\ UNCHANGED <<project_name, prompted>>
    /\ UNCHANGED <<env, installer, exit_code,
                   ask, output_dir, streampu_dir, aff3ct_dir, use_aff3ct,
                   use_custom, disk, result, build, last>>

\* lines 609-612: asks only while project_name is None, which lines 586-587
\* have excluded by the time this test runs
ask_output_dir ==
    /\ pc = "output_dir"
    /\ IF project_name = None
       THEN \E response \in PathResponses :
              /\ prompted' = prompted \cup {"output_dir"}
              /\ output_dir' = Some(Resolve(IF response = "" THEN "." ELSE response))
       ELSE /\ output_dir' = Some(".")
            /\ UNCHANGED prompted
    /\ pc' = "streampu_root"
    /\ UNCHANGED <<env, installer, exit_code,
                   ask, project_name, streampu_dir, aff3ct_dir, use_aff3ct,
                   use_custom, disk, result, build, last>>

\* lines 616-619
streampu_root ==
    /\ pc = "streampu_root"
    /\ ask = Idle
    /\ IF Truthy(args.streampu_root)
       THEN streampu_dir' = args.streampu_root /\ pc' = "use_aff3ct" /\ UNCHANGED ask
       ELSE ask' = [at |-> "path", path |-> ""] /\ UNCHANGED <<streampu_dir, pc>>
    /\ UNCHANGED <<env, installer, exit_code,
                   prompted, project_name, output_dir, aff3ct_dir, use_aff3ct,
                   use_custom, disk, result, build, last>>

\* the field a root prompt is about, and the artifact that validates the root
AskedField == IF pc = "streampu_root" THEN "streampu_root" ELSE "aff3ct_root"
DefiningArtifact == IF pc = "streampu_root" THEN LibStreampu ELSE HdrAff3ct

\* ask_streampu_root / ask_aff3ct_root returning root to create_project
ReturnRoot(root) ==
    /\ ask' = Idle
    /\ IF pc = "streampu_root"
       THEN streampu_dir' = Some(root) /\ pc' = "use_aff3ct" /\ UNCHANGED aff3ct_dir
       ELSE aff3ct_dir' = Some(root) /\ pc' = "use_custom" /\ UNCHANGED streampu_dir

\* mutant: the root that ask_path returned is taken without looking for the
\* artifact
CheckRoot_ArtifactIgnored(root) == ReturnRoot(root)

\* lines 188-193 and 200-205: ask_path returned root; check the artifact
CheckRoot(root) ==
    IF <<root, DefiningArtifact>> \in fs
    THEN ReturnRoot(root)
    ELSE /\ ask' = [at |-> "try_another", path |-> root]
         /\ UNCHANGED <<pc, streampu_dir, aff3ct_dir>>

\* ask_path (lines 166-180) with default None and must_exist True
ask_path ==
    /\ pc \in {"streampu_root", "aff3ct_root"}
    /\ ask.at = "path"
    /\ \E response \in PathResponses :
         /\ prompted' = prompted \cup {AskedField}
         /\ IF <<Resolve(response), "">> \in fs
            THEN CheckRoot(Resolve(response))
            ELSE /\ ask' = [at |-> "try_anyway", path |-> response]
                 /\ UNCHANGED <<pc, streampu_dir, aff3ct_dir>>
    /\ UNCHANGED <<env, installer, exit_code,
                   project_name, output_dir, use_aff3ct, use_custom, disk,
                   result, build, last>>

\* ask_path, lines 181-182: "Try anyway?"
ask_path_try_anyway ==
    /\ pc \in {"streampu_root", "aff3ct_root"}
    /\ ask.at = "try_anyway"
    /\ \E response \in YesNoResponses :
         LET answer == ask_yes_no(response, FALSE)
         IN  /\ prompted' = prompted \cup {AskedField}
             /\ IF answer = None
                THEN UNCHANGED <<ask, pc, streampu_dir, aff3ct_dir>>
                ELSE IF Val(answer)
                THEN CheckRoot(Resolve(ask.path))
                ELSE /\ ask' = [at |-> "path", path |-> ""]
                     /\ UNCHANGED <<pc, streampu_dir, aff3ct_dir>>
    /\ UNCHANGED <<env, installer, exit_code,
                   project_name, output_dir, use_aff3ct, use_custom, disk,
                   result, build, last>>

\* lines 193-194 and 205-206: "Try another ... path?"
ask_root_try_another ==
    /\ pc \in {"streampu_root", "aff3ct_root"}
    /\ ask.at = "try_another"
    /\ \E response \in YesNoResponses :
         LET answer == ask_yes_no(response, TRUE)
         IN  /\ prompted' = prompted \cup {AskedField}
             /\ IF answer = None
                THEN UNCHANGED <<ask, pc, streampu_dir, aff3ct_dir>>
                ELSE IF Val(answer)
                THEN /\ ask' = [at |-> "path", path |-> ""]
                     /\ UNCHANGED <<pc, streampu_dir, aff3ct_dir>>
                ELSE ReturnRoot(ask.path)
    /\ UNCHANGED <<env, installer, exit_code,
                   project_name, output_dir, use_aff3ct, use_custom, disk,
                   result, build, last>>

\* lines 621-622
ask_use_aff3ct ==
    /\ pc = "use_aff3ct"
    /\ IF use_aff3ct = None
       THEN \E response \in YesNoResponses :
              LET answer == ask_yes_no(response, FALSE)
              IN  /\ prompted' = prompted \cup {"use_aff3ct"}
                  /\ IF answer = None
                     THEN UNCHANGED <<use_aff3ct, pc>>
                     ELSE use_aff3ct' = answer /\ pc' = "aff3ct_root"
       ELSE /\ pc' = "aff3ct_root"
            /\ UNCHANGED <<use_aff3ct, prompted>>
    /\ UNCHANGED <<env, installer, exit_code,
                   ask, project_name, output_dir, streampu_dir, aff3ct_dir,
                   use_custom, disk, result, build, last>>

\* lines 624-630
aff3ct_root ==
    /\ pc = "aff3ct_root"
    /\ ask = Idle
    /\ IF Val(use_aff3ct)
       THEN IF Truthy(args.aff3ct_root)
            THEN aff3ct_dir' = args.aff3ct_root /\ pc' = "use_custom" /\ UNCHANGED ask
            ELSE ask' = [at |-> "path", path |-> ""] /\ UNCHANGED <<aff3ct_dir, pc>>
       ELSE aff3ct_dir' = None /\ pc' = "use_custom" /\ UNCHANGED ask
    /\ UNCHANGED <<env, installer, exit_code,
                   prompted, project_name, output_dir, streampu_dir, use_aff3ct,
                   use_custom, disk, result, build, last>>

\* lines 632-633
ask_use_custom ==
    /\ pc = "use_custom"
    /\ IF use_custom = None
       THEN \E response \in YesNoResponses :
              LET answer == ask_yes_no(response, TRUE)
              IN  /\ prompted' = prompted \cup {"use_custom"}
                  /\ IF answer = None
                     THEN UNCHANGED <<use_custom, pc>>
                     ELSE use_custom' = answer /\ pc' = "mkdir"
       ELSE /\ pc' = "mkdir"
            /\ UNCHANGED <<use_custom, prompted>>
    /\ UNCHANGED <<env, installer, exit_code,
                   ask, project_name, output_dir, streampu_dir, aff3ct_dir,
                   use_aff3ct, disk, result, build, last>>

(***************************************************************************)
(* create_project, synthesis (lines 635-787).  Paths are relative to       *)
(* project_dir = Path(output_dir) / project_name.                          *)
(***************************************************************************)
\* lines 636-647: project_dir.mkdir(parents=True, exist_ok=True), which may
\* fail (return False), then src_dir.mkdir(exist_ok=True)
make_project_dir ==
    /\ pc = "mkdir"
    /\ \E ok \in BOOLEAN :
         IF ok
         THEN dirs' = dirs \cup {".", "src"} /\ pc' = "cmakelists" /\ UNCHANGED result
         ELSE result' = Some(FALSE) /\ pc' = "done" /\ UNCHANGED dirs
    /\ UNCHANGED <<env, installer, exit_code,
                   ask, prompted, locals, files, build, last>>

\* lines 650-661
write_cmakelists ==
    /\ pc = "cmakelists"
    /\ files' = Put(files, "CMakeLists.txt",
                    create_cmakelists(Val(project_name), Resolve(cwd), streampu_dir,
                                      aff3ct_dir, Val(use_aff3ct), Val(use_custom)),
                    ModePlain)
    /\ pc' = "main_cpp"
    /\ UNCHANGED <<env, installer, exit_code,
                   ask, prompted, locals, dirs, result, build, last>>

\* lines 664-667
write_main_cpp ==
    /\ pc = "main_cpp"
    /\ files' = Put(files, "src/main.cpp",
                    create_main_cpp(Val(use_custom), Val(use_aff3ct)), ModePlain)
    /\ pc' = "custom"
    /\ UNCHANGED <<env, installer, exit_code,
                   ask, prompted, locals, dirs, result, build, last>>

\* mutant: the custom module is written whatever use_custom is
write_custom_header_Unconditional ==
    /\ pc = "custom"
    /\ dirs' = dirs \cup {"src/custom"}
    /\ files' = Put(files, "src/custom/MyModule.hpp", create_custom_module.header, ModePlain)
    /\ pc' = "custom_cpp"
    /\ UNCHANGED <<env, installer, exit_code,
                   ask, prompted, locals, result, build, last>>

\* lines 670-677: the custom directory and the header, only if use_custom
write_custom_header ==
    /\ pc = "custom"
    /\ IF Val(use_custom)
       THEN /\ dirs' = dirs \cup {"src/custom"}
            /\ files' = Put(files, "src/custom/MyModule.hpp",
                            create_custom_module.header, ModePlain)
            /\ pc' = "custom_cpp"
       ELSE /\ pc' = "gitignore"
            /\ UNCHANGED <<dirs, files>>
    /\ UNCHANGED <<env, installer, exit_code,
                   ask, prompted, locals, result, build, last>>

\* lines 679-681
write_custom_impl ==
    /\ pc = "custom_cpp"
    /\ files' = Put(files, "src/custom/MyModule.cpp",
                    create_custom_module.implementation, ModePlain)
    /\ pc' = "gitignore"
    /\ UNCHANGED <<env, installer, exit_code,
                   ask, prompted, locals, dirs, result, build, last>>

\* lines 684-698
write_gitignore ==
    /\ pc = "gitignore"
    /\ files' = Put(files, ".gitignore", gitignore, ModePlain)
    /\ pc' = "build_sh"
    /\ UNCHANGED <<env, installer, exit_code,
                   ask, prompted, locals, dirs, result, build, last>>

\* lines 701-731: written, then made executable
write_build_script ==
    /\ pc = "build_sh"
    /\ files' = Put(files, "build.sh",
                    build_script(Val(project_name), streampu_dir, aff3ct_dir, Resolve(cwd)),
                    ModeExec)
    /\ pc' = "readme"
    /\ UNCHANGED <<env, installer, exit_code,
                   ask, prompted, locals, dirs, result, build, last>>

\* lines 734-787
write_readme ==
    /\ pc = "readme"
    /\ files' = Put(files, "README.md",
                    readme(Val(project_name), streampu_dir, aff3ct_dir, Resolve(cwd),
                           Val(use_aff3ct), Val(use_custom)),
                    ModePlain)
    /\ result' = Some(TRUE)
    /\ pc' = "done"
    /\ UNCHANGED <<env, installer, exit_code,
                   ask, prompted, locals, dirs, build, last>>

(***************************************************************************)
(* __main__, lines 804-821: the exit status                                *)
(***************************************************************************)
\* line 813: sys.exit(0 if success else 1)
sys_exit ==
    /\ pc = "done"
    /\ exit_code = None
    /\ exit_code' = Some(IF Val(result) THEN 0 ELSE 1)
    /\ UNCHANGED <<synthesizer, installer>>

\* where create_project is when it blocks in input() or writes to the disk
InCreateProject ==
    pc \in {"project_name", "output_dir", "streampu_root", "use_aff3ct", "aff3ct_root",
            "use_custom", "mkdir", "cmakelists", "main_cpp", "custom", "custom_cpp",
            "gitignore", "build_sh", "readme"}

\* mutant: the exception is caught and the tool exits with 0
except_exit_StatusZero ==
    /\ InCreateProject
    /\ pc' = "raised"
    /\ exit_code' = Some(0)
    /\ UNCHANGED <<env, installer, ask, prompted, locals, disk, result, build, last>>

\* mutant: the files written so far are removed when the run is abandoned
except_exit_RolledBack ==
    /\ InCreateProject
    /\ pc' = "raised"
    /\ exit_code' = Some(1)
    /\ files' = <<>>
    /\ UNCHANGED <<env, installer, ask, prompted, locals, dirs, result, build, last>>

\* lines 814-821: a KeyboardInterrupt (Ctrl-C) or any Exception (EOF at a
\* prompt, a failed open() or write()) raised inside create_project leaves it
\* where it is, without a return value, and ends in sys.exit(1)
except_exit ==
    /\ InCreateProject
    /\ \E raised \in {"KeyboardInterrupt", "Exception"} :
         /\ pc' = "raised"
         /\ exit_code' = Some(1)
    /\ UNCHANGED <<env, installer, ask, prompted, locals, disk, result, build, last>>

(***************************************************************************)
(* The operator runs ./build.sh in the generated project (lines 701-726).  *)
(* cmake fails when the descriptor raises a fatal error and may fail for   *)
(* other reasons; a successful cmake writes the Makefile; make fails       *)
(* without a Makefile and may fail with one.                               *)
(***************************************************************************)
CmakeCommand(script) ==
    script[CHOOSE i \in DOMAIN script : script[i].cmd = "cmake"]

run_build_script ==
    /\ pc = "done"
    /\ result = Some(TRUE)
    /\ exit_code = Some(0)
    /\ build.runs < MaxBuildRuns
    /\ LET script == files["build.sh"].content
           fatal == ConfigureFatal(files["CMakeLists.txt"].content, CmakeCommand(script).a)
       IN  \E cmake_status \in {0, 1}, make_status \in {0, 2} :
             LET makefile == build.makefile \/ cmake_status = 0
             IN  /\ fatal => cmake_status = 1
                 /\ ~makefile => make_status = 2
                 /\ build' = [runs |-> build.runs + 1, makefile |-> makefile]
                 /\ last' = [cmake |-> cmake_status, make |-> make_status,
                             fatal |-> fatal,
                             exit |-> RunScript(script, [cmake |-> cmake_status,
                                                          make |-> make_status])]
    /\ UNCHANGED <<env, installer, exit_code,
                   pc, ask, prompted, locals, disk, result>>

Next ==
    \/ main
    \/ ask_project_name
    \/ ask_output_dir
    \/ streampu_root
    \/ ask_path
    \/ ask_path_try_anyway
    \/ ask_root_try_another
    \/ ask_use_aff3ct
    \/ aff3ct_root
    \/ ask_use_custom
    \/ make_project_dir
    \/ write_cmakelists
    \/ write_main_cpp
    \/ write_custom_header
    \/ write_custom_impl
    \/ write_gitignore
    \/ write_build_script
    \/ write_readme
    \/ sys_exit
    \/ except_exit
    \/ run_build_script

Spec == Init /\ [][Next]_vars

(***************************************************************************)
(* install_dependencies.py                                                 *)
(*                                                                         *)
(* A path below hulotte_root is [root, dir, name]: the top directory       *)
(* ("aff3ct", "streampu"), the directory below it and the file name, a     *)
(* sequence of the parts glob patterns tell apart.  The top directory      *)
(* itself has dir "" and name <<>>.                                        *)
(***************************************************************************)
Prerequisites == <<"git", "cmake", "g++">>

\* what os.cpu_count() may return: None when undetermined, or a count
CpuCounts == {None, Some(1), Some(16)}

\* the newest tag git ls-remote reports, and a reference typed by the operator
LatestTag == "v4.1.0"
TypedTag == "develop"

\* what is typed at a yes/no prompt of the installer ("x" is neither)
InstallerResponses == {"", "o", "non", "x"}

Path(root, dir, name) == [root |-> root, dir |-> dir, name |-> name]
TopDir(root) == Path(root, "", <<>>)

LibAff3ctCanonical == Path("aff3ct", "build/lib", <<"libaff3ct", "-", "4.1.0", ".a">>)
LibStreampuBundled == Path("aff3ct", "build/lib/streampu/lib", <<"libstreampu", ".a">>)
LibStreampuCanonical == Path("streampu", "build/lib", <<"libstreampu", ".a">>)

\* files a successful make may leave below the build directory
BuildOutputs(kind) ==
    IF kind = "aff3ct"
    THEN {LibAff3ctCanonical, LibStreampuBundled,
          Path("aff3ct", "build/lib", <<"libaff3ct", "-", "3.0.2", ".a">>),
          Path("aff3ct", "build/lib", <<"libaff3ct", ".a">>)}
    ELSE {LibStreampuCanonical,
          Path("streampu", "build/lib", <<"libstreampu", "-", "1.2.0", ".a">>)}

\* str(n) of a non-negative integer
RECURSIVE Str(_)
Str(n) ==
    LET digit(d) == CASE d = 0 -> "0" [] d = 1 -> "1" [] d = 2 -> "2" [] d = 3 -> "3"
                      [] d = 4 -> "4" [] d = 5 -> "5" [] d = 6 -> "6" [] d = 7 -> "7"
                      [] d = 8 -> "8" [] d = 9 -> "9"
    IN  IF n < 10 THEN digit(n) ELSE Str(n \div 10) \o digit(n % 10)

\* get_cpu_cores (lines 70-75): str(os.cpu_count()); os.cpu_count() does not
\* raise, it returns None when the count is undetermined, and str(None) is
\* the text "None"
get_cpu_cores ==
    IF cpu_count = None THEN "None" ELSE Str(Val(cpu_count))

\* ask_yes_no of install_dependencies.py (lines 49-67): None is "ask again"
installer_ask_yes_no(response, default) ==
    IF response = "" THEN Some(default)
    ELSE IF response \in {"y", "yes", "oui", "o"} THEN Some(TRUE)
    ELSE IF response \in {"n", "no", "non"} THEN Some(FALSE)
    ELSE None

\* one entry of log or trace
Event(op, arg, ok) == [op |-> op, arg |-> arg, ok |-> ok]
Asked(question, answer) == Event("ask_yes_no", question, answer)

\* create_project.py is not running
SynthesizerOff ==
    /\ args = [name |-> None, aff3ct |-> FALSE, no_custom |-> FALSE,
               streampu_root |-> None, aff3ct_root |-> None]
    /\ cwd = "/w"
    /\ fs = {Dir("/w")}
    /\ pc = "off"
    /\ ask = Idle
    /\ prompted = {}
    /\ project_name = None
    /\ output_dir = None
    /\ streampu_dir = None
    /\ aff3ct_dir = None
    /\ use_aff3ct = None
    /\ use_custom = None
    /\ dirs = {}
    /\ files = <<>>
    /\ result = None
    /\ build = [runs |-> 0, makefile |-> FALSE]
    /\ last = [cmake |-> 0, make |-> 0, fatal |-> FALSE, exit |-> 0]

\* the installer starts on a machine with any of the prerequisites, any CPU
\* count, and hulotte_root holding an earlier aff3ct or streampu directory or not
InstallInit ==
    /\ SynthesizerOff
    /\ exit_code = None
    /\ which \in SUBSET {Prerequisites[i] : i \in DOMAIN Prerequisites}
    /\ cpu_count \in CpuCounts
    /\ tree \in SUBSET {TopDir("aff3ct"), TopDir("streampu")}
    /\ ipc = "prerequisites"
    /\ stage = ""
    /\ tag = None
    /\ venv_dir = None
    /\ aff3ct_info = None
    /\ streampu_info = None
    /\ surfer_path = None
    /\ log = <<>>
    /\ trace = <<>>

\* main returns status; line 601 passes it to sys.exit
Return(status) ==
    /\ exit_code' = Some(status)
    /\ ipc' = "done"

\* lines 508-517: check_git, check_cmake, check_compiler, in this order, each
\* one "which <binary>"; the first one missing ends the run with 1
RECURSIVE Checked(_)
Checked(i) ==
    IF i > Len(Prerequisites) THEN <<>>
    ELSE IF Prerequisites[i] \in which
    THEN <<Event("which", Prerequisites[i], TRUE)>> \o Checked(i + 1)
    ELSE <<Event("which", Prerequisites[i], FALSE)>>

check_prerequisites ==
    /\ ipc = "prerequisites"
    /\ log' = log \o Checked(1)
    /\ IF \A i \in DOMAIN Prerequisites : Prerequisites[i] \in which
       THEN ipc' = "python_environment" /\ UNCHANGED exit_code
       ELSE Return(1)
    /\ UNCHANGED <<synthesizer, which, cpu_count, tree, stage, tag, venv_dir,
                   aff3ct_info, streampu_info, surfer_path, trace>>

\* lines 520-522, setup_python_environment (lines 449-493): the venv
\* directory, or None when creating it or installing into it failed
setup_python_environment ==
    /\ ipc = "python_environment"
    /\ \E ok \in BOOLEAN :
         /\ venv_dir' = IF ok THEN Some(".venv") ELSE None
         /\ log' = log \o <<Event("setup_python_environment", "", ok)>>
                       \o (IF ok THEN <<>>
                           ELSE <<Event("print_error", "Python environment setup failed", FALSE)>>)
         /\ ipc' = IF ok THEN "ask_aff3ct" ELSE "python_continue"
    /\ UNCHANGED <<synthesizer, exit_code, which, cpu_count, tree, stage, tag,
                   aff3ct_info, streampu_info, surfer_path, trace>>

\* lines 523-524 and 532-533: "Continue anyway?", default no
continue_anyway ==
    /\ ipc \in {"python_continue", "aff3ct_continue"}
    /\ \E response \in InstallerResponses :
         LET answer == installer_ask_yes_no(response, FALSE)
         IN  IF answer = None
             THEN UNCHANGED <<ipc, log, exit_code>>
             ELSE /\ log' = Append(log, Asked("Continue anyway?", Val(answer)))
                  /\ IF Val(answer)
                     THEN /\ ipc' = IF ipc = "python_continue" THEN "ask_aff3ct"
                                     ELSE "ask_streampu"
                          /\ UNCHANGED exit_code
                     ELSE Return(1)
    /\ UNCHANGED <<synthesizer, which, cpu_count, tree, stage, tag, venv_dir,
                   aff3ct_info, streampu_info, surfer_path, trace>>

\* lines 527-529: "Do you want to install AFF3CT (with StreamPU)?", default yes
ask_install_aff3ct ==
    /\ ipc = "ask_aff3ct"
    /\ \E response \in InstallerResponses :
         LET answer == installer_ask_yes_no(response, TRUE)
         IN  IF answer = None
             THEN UNCHANGED <<ipc, log, stage, trace>>
             ELSE /\ log' = Append(log, Asked("install AFF3CT?", Val(answer)))
                  /\ IF Val(answer)
                     THEN ipc' = "install_aff3ct" /\ stage' = "choose_version"
                          /\ trace' = <<>>
                     ELSE ipc' = "ask_streampu" /\ UNCHANGED <<stage, trace>>
    /\ UNCHANGED <<synthesizer, exit_code, which, cpu_count, tree, tag, venv_dir,
                   aff3ct_info, streampu_info, surfer_path>>

(***************************************************************************)
(* install_aff3ct (lines 166-261) and install_streampu (lines 264-336)     *)
(***************************************************************************)
Installing == ipc \in {"install_aff3ct", "install_streampu"}
Kind == IF ipc = "install_aff3ct" THEN "aff3ct" ELSE "streampu"

\* the install function returns value to main: lines 529-533 for AFF3CT,
\* lines 553-555 for StreamPU
ReturnToMain(value) ==
    /\ stage' = ""
    /\ tag' = None
    /\ IF Kind = "aff3ct"
       THEN /\ aff3ct_info' = value
            /\ UNCHANGED streampu_info
            /\ ipc' = IF value = None THEN "aff3ct_continue" ELSE "ask_streampu"
            /\ log' = log \o <<Event("install_aff3ct", "", value # None)>>
                          \o (IF value = None
                              THEN <<Event("print_error", "AFF3CT installation failed", FALSE)>>
                              ELSE <<>>)
       ELSE /\ streampu_info' = value
            /\ UNCHANGED aff3ct_info
            /\ ipc' = "ask_surfer"
            /\ log' = log \o <<Event("install_streampu", "", value # None)>>
                          \o (IF value = None
                              THEN <<Event("print_error", "StreamPU installation failed", FALSE)>>
                              ELSE <<>>)

\* the install function goes on to its next stage
GoOn(next) ==
    /\ stage' = next
    /\ UNCHANGED <<ipc, log, aff3ct_info, streampu_info>>

\* mutant: what the operator typed is dropped
chosen_version_OverrideDropped(latest_tag, use_latest, custom_tag) == latest_tag

\* choose_version (lines 99-115): the tag to clone, None for the default branch
chosen_version(latest_tag, use_latest, custom_tag) ==
    IF latest_tag # None
    THEN IF use_latest THEN latest_tag
         ELSE IF custom_tag # "" THEN Some(custom_tag) ELSE latest_tag
    ELSE IF custom_tag # "" THEN Some(custom_tag) ELSE None

\* lines 172-173 and 270-271: get_latest_tag (lines 78-96) queries the remote
\* and yields the newest tag or None; then the prompts of choose_version, with
\* the answer that ask_yes_no("Use <tag>?", default=True) ends on
choose_version ==
    /\ Installing
    /\ stage = "choose_version"
    /\ \E latest_tag \in {None, Some(LatestTag)}, response \in InstallerResponses,
          custom_tag \in {"", TypedTag} :
       LET answer == installer_ask_yes_no(response, TRUE)
           use_latest == latest_tag # None /\ Val(answer)
       IN
         /\ answer # None
         /\ use_latest => custom_tag = ""
         /\ tag' = chosen_version(latest_tag, use_latest, custom_tag)
         /\ trace' = trace
                \o <<Event("git ls-remote", Kind, latest_tag # None)>>
                \o (IF latest_tag # None THEN <<Asked("Use latest?", use_latest)>> ELSE <<>>)
                \o (IF latest_tag = None \/ ~use_latest
                    THEN <<Event("input", custom_tag, TRUE)>> ELSE <<>>)
    /\ stage' = "target"
    /\ UNCHANGED <<synthesizer, exit_code, which, cpu_count, tree, ipc, venv_dir,
                   aff3ct_info, streampu_info, surfer_path, log>>

\* lines 175-184 and 273-282: an existing directory is kept (return None)
\* unless the operator asks to reinstall; the status of rm -rf is not looked at
target_check ==
    /\ Installing
    /\ stage = "target"
    /\ IF TopDir(Kind) \in tree
       THEN \E response \in InstallerResponses :
              LET answer == installer_ask_yes_no(response, FALSE)
                  seen == Append(trace, Event("exists", Kind, TRUE))
              IN  IF answer = None
                  THEN UNCHANGED <<installer>>
                  ELSE IF Val(answer)
                  THEN \E removed \in BOOLEAN :
                         /\ trace' = seen \o <<Asked("delete and reinstall?", TRUE),
                                                Event("rm -rf", Kind, removed)>>
                         /\ tree' = IF removed THEN {q \in tree : q.root # Kind} ELSE tree
                         /\ GoOn("clone")
                         /\ UNCHANGED tag
                  ELSE /\ trace' = Append(seen, Asked("delete and reinstall?", FALSE))
                       /\ ReturnToMain(None)
                       /\ UNCHANGED tree
       ELSE /\ trace' = Append(trace, Event("exists", Kind, FALSE))
            /\ GoOn("clone")
            /\ UNCHANGED <<tree, tag>>
    /\ UNCHANGED <<synthesizer, exit_code, which, cpu_count, venv_dir, surfer_path>>

\* lines 186-196 and 284-294: git clone --recursive <url> [--branch <tag>];
\* git refuses to clone into a directory that is still there
clone ==
    /\ Installing
    /\ stage = "clone"
    /\ \E ok \in BOOLEAN :
         /\ TopDir(Kind) \in tree => ~ok
         /\ trace' = Append(trace, Event("git clone", IF tag = None THEN "" ELSE Val(tag), ok))
         /\ IF ok
            THEN tree' = tree \cup {TopDir(Kind)} /\ GoOn("configure") /\ UNCHANGED tag
            ELSE ReturnToMain(None) /\ UNCHANGED tree
    /\ UNCHANGED <<synthesizer, exit_code, which, cpu_count, venv_dir, surfer_path>>

\* mutant: the status of cmake is not looked at
configure_StatusIgnored ==
    /\ Installing
    /\ stage = "configure"
    /\ \E ok \in BOOLEAN :
         /\ trace' = Append(trace, Event("cmake", Kind, ok))
         /\ tree' = tree \cup {Path(Kind, "build", <<>>)}
         /\ GoOn("compile")
         /\ UNCHANGED tag
    /\ UNCHANGED <<synthesizer, exit_code, which, cpu_count, venv_dir, surfer_path>>

\* lines 198-219 and 295-313: the build directory, then cmake ..
configure ==
    /\ Installing
    /\ stage = "configure"
    /\ \E ok \in BOOLEAN :
         /\ trace' = Append(trace, Event("cmake", Kind, ok))
         /\ IF ok
            THEN tree' = tree \cup {Path(Kind, "build", <<>>)} /\ GoOn("compile")
                 /\ UNCHANGED tag
            ELSE ReturnToMain(None) /\ UNCHANGED tree
    /\ UNCHANGED <<synthesizer, exit_code, which, cpu_count, venv_dir, surfer_path>>

\* make accepts -j<n> only for a positive integer n
MaxJobs == 64
JobsAccepted(cores) ==
    \E n \in 1..MaxJobs : cores = Str(n)

\* lines 221-230 and 315-323: make -j{cores}; a successful make leaves any of
\* the build outputs
compile ==
    /\ Installing
    /\ stage = "compile"
    /\ LET cores == get_cpu_cores
       IN  \E ok \in BOOLEAN, outputs \in SUBSET BuildOutputs(Kind) :
             /\ ~JobsAccepted(cores) => ~ok
             /\ ~ok => outputs = {}
             /\ trace' = Append(trace, Event("make", cores, ok))
             /\ IF ok
                THEN tree' = tree \cup outputs /\ GoOn("verify") /\ UNCHANGED tag
                ELSE ReturnToMain(None) /\ UNCHANGED tree
    /\ UNCHANGED <<synthesizer, exit_code, which, cpu_count, venv_dir, surfer_path>>

\* Path.glob with a pattern holding one "*": the names that start with what
\* precedes the star and end with what follows it
Fnmatch(name, pattern) ==
    LET star == CHOOSE i \in DOMAIN pattern : pattern[i] = "*"
        pre == SubSeq(pattern, 1, star - 1)
        post == SubSeq(pattern, star + 1, Len(pattern))
    IN  /\ Len(name) >= Len(pre) + Len(post)
        /\ SubSeq(name, 1, Len(pre)) = pre
        /\ SubSeq(name, Len(name) - Len(post) + 1, Len(name)) = post

InstallerGlob(root, dir, pattern) ==
    {q \in tree : q.root = root /\ q.dir = dir /\ q.name # <<>> /\ Fnmatch(q.name, pattern)}

\* mutant: the StreamPU keys are reported without probing for the library
aff3ct_result_NotProbed(lib_file) ==
    [aff3ct_root |-> TopDir("aff3ct"),
     streampu_root |-> Path("aff3ct", "lib/streampu", <<>>),
     aff3ct_lib |-> lib_file,
     streampu_lib |-> LibStreampuBundled]

\* lines 246-261: the dict install_aff3ct returns, with the StreamPU keys
\* only when the bundled libstreampu.a exists
aff3ct_result(lib_file) ==
    IF LibStreampuBundled \in tree
    THEN [aff3ct_root |-> TopDir("aff3ct"),
          streampu_root |-> Path("aff3ct", "lib/streampu", <<>>),
          aff3ct_lib |-> lib_file,
          streampu_lib |-> LibStreampuBundled]
    ELSE [aff3ct_root |-> TopDir("aff3ct"), aff3ct_lib |-> lib_file]

\* lines 232-261: libaff3ct-4.1.0.a, else the first of glob("libaff3ct-*.a"),
\* whose order is the directory's, else failure
verify_aff3ct ==
    /\ ipc = "install_aff3ct"
    /\ stage = "verify"
    /\ LET lib_files == InstallerGlob("aff3ct", "build/lib", <<"libaff3ct", "-", "*", ".a">>)
       IN  IF LibAff3ctCanonical \in tree
           THEN ReturnToMain(Some(aff3ct_result(LibAff3ctCanonical)))
           ELSE IF lib_files # {}
           THEN \E first \in lib_files : ReturnToMain(Some(aff3ct_result(first)))
           ELSE ReturnToMain(None)
    /\ trace' = Append(trace, Event("verify", "aff3ct", LibAff3ctCanonical \in tree))
    /\ UNCHANGED <<synthesizer, exit_code, which, cpu_count, tree, venv_dir, surfer_path>>

\* lines 325-336: libstreampu.a or failure
verify_streampu ==
    /\ ipc = "install_streampu"
    /\ stage = "verify"
    /\ IF LibStreampuCanonical \in tree
       THEN ReturnToMain(Some([streampu_root |-> TopDir("streampu"),
                               streampu_lib |-> LibStreampuCanonical]))
       ELSE ReturnToMain(None)
    /\ trace' = Append(trace, Event("verify", "streampu", LibStreampuCanonical \in tree))
    /\ UNCHANGED <<synthesizer, exit_code, which, cpu_count, tree, venv_dir, surfer_path>>

(***************************************************************************)
(* install_dependencies.main, after AFF3CT (lines 535-592)                 *)
(***************************************************************************)
\* lines 536-553: the question and its default depend on whether AFF3CT
\* brought StreamPU along
ask_install_streampu ==
    /\ ipc = "ask_streampu"
    /\ LET bundled == aff3ct_info # None /\ "streampu_root" \in DOMAIN Val(aff3ct_info)
       IN  \E response \in InstallerResponses :
             LET install_standalone == installer_ask_yes_no(response, ~bundled)
             IN  IF install_standalone = None
                 THEN UNCHANGED <<ipc, log, stage, trace>>
                 ELSE /\ log' = Append(log, Asked(IF bundled THEN "still install StreamPU standalone?"
                                                  ELSE "install StreamPU (standalone)?",
                                                  Val(install_standalone)))
                      /\ IF Val(install_standalone)
                         THEN ipc' = "install_streampu" /\ stage' = "choose_version"
                              /\ trace' = <<>>
                         ELSE ipc' = "ask_surfer" /\ UNCHANGED <<stage, trace>>
    /\ UNCHANGED <<synthesizer, exit_code, which, cpu_count, tree, tag, venv_dir,
                   aff3ct_info, streampu_info, surfer_path>>

\* lines 557-560, install_surfer (lines 339-410): the path of the binary or None
ask_install_surfer ==
    /\ ipc = "ask_surfer"
    /\ \E response \in InstallerResponses :
         LET answer == installer_ask_yes_no(response, TRUE)
         IN  IF answer = None
             THEN UNCHANGED <<ipc, log, surfer_path>>
             ELSE /\ log' = Append(log, Asked("install Surfer?", Val(answer)))
                  /\ ipc' = "summary"
                  /\ IF Val(answer)
                     THEN surfer_path' \in {None, Some("tools/surfer")}
                     ELSE UNCHANGED surfer_path
    /\ UNCHANGED <<synthesizer, exit_code, which, cpu_count, tree, stage, tag, venv_dir,
                   aff3ct_info, streampu_info, trace>>

\* lines 562-592: INSTALL_INFO.txt if anything was installed, the summary,
\* return 0
summary ==
    /\ ipc = "summary"
    /\ tree' = IF aff3ct_info # None \/ streampu_info # None \/ surfer_path # None
               THEN tree \cup {Path("", "", <<"INSTALL_INFO", ".txt">>)}
               ELSE tree
    /\ Return(0)
    /\ UNCHANGED <<synthesizer, which, cpu_count, stage, tag, venv_dir, aff3ct_info,
                   streampu_info, surfer_path, log, trace>>

\* lines 600-609: a KeyboardInterrupt or any Exception raised inside main
\* (at a prompt, inside a child process) ends in sys.exit(1)
installer_except_exit ==
    /\ ipc \notin {"off", "done", "raised"}
    /\ \E raised \in {"KeyboardInterrupt", "Exception"} :
         /\ ipc' = "raised"
         /\ exit_code' = Some(1)
    /\ UNCHANGED <<synthesizer, which, cpu_count, tree, stage, tag, venv_dir,
                   aff3ct_info, streampu_info, surfer_path, log, trace>>

InstallNext ==
    \/ check_prerequisites
    \/ setup_python_environment
    \/ continue_anyway
    \/ ask_install_aff3ct
    \/ choose_version
    \/ target_check
    \/ clone
    \/ configure
    \/ compile
    \/ verify_aff3ct
    \/ verify_streampu
    \/ ask_install_streampu
    \/ ask_install_surfer
    \/ summary
    \/ installer_except_exit

InstallSpec == InstallInit /\ [][InstallNext]_vars

(***************************************************************************)
(* Either tool, run once                                                   *)
(***************************************************************************)
ToolsInit == Init \/ InstallInit
ToolsNext == Next \/ InstallNext
ToolsSpec == ToolsInit /\ [][ToolsNext]_vars

(***************************************************************************)
(* create_project.py run again into the project it generated               *)
(***************************************************************************)
\* after a successful run the operator starts create_project.py again from
\* the same working directory with the same name argument, hence into the
\* same project directory, with or without --no-custom and the other
\* arguments as before, all of them on the command line: a new process (lines
\* 790-802) that finds the directories and files of the earlier run on the
\* disk
rerun ==
    /\ pc = "done"
    /\ result = Some(TRUE)
    /\ exit_code = Some(0)
    /\ TruthyName(args.name)
    /\ prompted = {}
    /\ \E no_custom \in BOOLEAN : args' = [args EXCEPT !.no_custom = no_custom]
    /\ pc' = "main"
    /\ exit_code' = None
    /\ ask' = Idle
    /\ prompted' = {}
    /\ project_name' = None
    /\ output_dir' = None
    /\ streampu_dir' = None
    /\ aff3ct_dir' = None
    /\ use_aff3ct' = None
    /\ use_custom' = None
    /\ result' = None
    /\ build' = [runs |-> 0, makefile |-> build.makefile]
    /\ last' = [cmake |-> 0, make |-> 0, fatal |-> FALSE, exit |-> 0]
    /\ UNCHANGED <<cwd, fs, disk, installer>>

RerunNext == Next \/ rerun
RerunSpec == Init /\ [][RerunNext]_vars


(***************************************************************************)
(* Properties                                                              *)
(***************************************************************************)
\* the derived mode: interactive iff no project name was supplied up front
Interactive == args.name = None

\* something of the project exists on disk
Created == dirs # {} \/ DOMAIN files # {}

\* a name matching [A-Za-z0-9_-]+
MatchesNamePattern(n) ==
    n # <<>> /\ \A i \in DOMAIN n : n[i] \in AsciiLetters \cup Digits \cup {"_", "-"}

\* C1: when a project name is supplied up front (interactive = false),
\* create_project reads no input for any field, whatever the other arguments.
C1_NoPromptWhenNameSupplied ==
    ~Interactive => prompted = {}

\* the fields the command line leaves unset
UnsetFields ==
    {"project_name", "output_dir"}
    \cup (IF args.streampu_root = None THEN {"streampu_root"} ELSE {})
    \cup (IF ~args.aff3ct THEN {"use_aff3ct"} ELSE {})
    \cup (IF use_aff3ct = Some(TRUE) /\ args.aff3ct_root = None THEN {"aff3ct_root"} ELSE {})
    \cup (IF ~args.no_custom THEN {"use_custom"} ELSE {})

\* C2: when no project name is supplied (interactive = true), every unset
\* field (name, output directory, library_a root, library_b toggle, library_b
\* root when enabled, custom-module toggle) has been prompted for by the time
\* the first directory or file of the project exists.
C2_AllUnsetFieldsPromptedBeforeSynthesis ==
    (Interactive /\ Created) => UnsetFields \subseteq prompted

\* C3: a toggle whose explicit flag is present is never prompted for, a toggle
\* with no flag is prompted for only in interactive mode, and in
\* non-interactive mode it takes its default (custom module on, library_b off).
C3_TogglePrecedence ==
    /\ args.aff3ct => "use_aff3ct" \notin prompted
    /\ args.no_custom => "use_custom" \notin prompted
    /\ ~Interactive => prompted \cap {"use_aff3ct", "use_custom"} = {}
    /\ (~Interactive /\ pc # "main" /\ ~args.aff3ct) => use_aff3ct = Some(FALSE)
    /\ (~Interactive /\ pc # "main" /\ ~args.no_custom) => use_custom = Some(TRUE)

\* C4: in non-interactive mode a name argument that is empty or has a
\* character outside [A-Za-z0-9_-] makes create_project fail: it reports
\* failure, creates no directory and writes no file.
C4_InvalidNameArgumentFails ==
    (~Interactive /\ ~MatchesNamePattern(Val(args.name)))
        => /\ ~Created
           /\ pc = "done" => result = Some(FALSE)

\* the generated files, once written
CMakeLists == files["CMakeLists.txt"].content
MainCpp == files["src/main.cpp"].content
BuildSh == files["build.sh"].content
Readme == files["README.md"].content
Written(path) == path \in DOMAIN files

WithAff3ct == use_aff3ct = Some(TRUE)
WithCustom == use_custom = Some(TRUE)

\* some binding connects an output of module a to an input of module b
Bound(binds, a, b) ==
    \E i \in DOMAIN binds : binds[i].from = a /\ binds[i].to = b

\* the stages reached from module m by following the bindings
RECURSIVE Follow(_, _)
Follow(binds, m) ==
    IF \E i \in DOMAIN binds : binds[i].from = m
    THEN <<m>> \o Follow(binds, binds[CHOOSE i \in DOMAIN binds : binds[i].from = m].to)
    ELSE <<m>>

\* the base processing chain: the stages of the entry point without custom module
BaseChain(with_aff3ct) ==
    LET base == create_main_cpp(FALSE, with_aff3ct)
    IN  Follow(base.sockets_bind, base.first_task[1])

\* stage k feeds the custom module and the custom module feeds stage k+1
Routed(binds, chain, k) ==
    Bound(binds, chain[k], "my_module") /\ Bound(binds, "my_module", chain[k + 1])
\* stage k feeds stage k+1 directly
Direct(binds, chain, k) ==
    Bound(binds, chain[k], chain[k + 1])

\* C5 as claimed: for every combination of use_custom_module and
\* use_library_b, stage2 -> custom -> stage3 when use_custom_module is true
\* and stage2 -> stage3 directly when it is false; never both, never neither.
C5_CustomBetweenStage2AndStage3 ==
    Written("src/main.cpp") =>
        LET chain == BaseChain(WithAff3ct)
            binds == MainCpp.sockets_bind
        IN  IF WithCustom
            THEN Routed(binds, chain, 2) /\ ~Direct(binds, chain, 2)
            ELSE Direct(binds, chain, 2) /\ ~Routed(binds, chain, 2)

\* the link of the base chain into which the custom module is spliced
SpliceAt == IF WithAff3ct THEN 1 ELSE 2

\* C5 amended: the bindings have exactly one of two topologies.  When
\* use_custom_module is true the custom module is spliced into one link of the
\* base chain: stage2 -> custom -> stage3 of initializer -> incrementer ->
\* finalizer when use_library_b is false, stage1 -> custom -> stage2 of
\* source -> encoder -> decoder -> finalizer when use_library_b is true; every
\* other stage feeds the next directly.  When it is false every stage feeds
\* the next directly and nothing is bound to the custom module.
C5_CustomSplicedIntoOneLink ==
    Written("src/main.cpp") =>
        LET chain == BaseChain(WithAff3ct)
            binds == MainCpp.sockets_bind
        IN  /\ \A k \in 1 .. Len(chain) - 1 :
                 IF WithCustom /\ k = SpliceAt
                 THEN Routed(binds, chain, k) /\ ~Direct(binds, chain, k)
                 ELSE Direct(binds, chain, k) /\ ~Routed(binds, chain, k)
            /\ Len(binds) = Len(chain) - 1 + (IF WithCustom THEN 1 ELSE 0)
            /\ ~WithCustom => \A i \in DOMAIN binds :
                                 binds[i].from # "my_module" /\ binds[i].to # "my_module"

\* C5 witness: an entry point written with both library_b and the custom module
C5_Witness ==
    /\ Written("src/main.cpp") /\ WithAff3ct /\ WithCustom
    /\ Bound(MainCpp.sockets_bind, "source", "my_module")

\* every statement of a descriptor, those inside if branches included
RECURSIVE Flatten(_)
Flatten(stmts) ==
    IF stmts = <<>> THEN <<>>
    ELSE LET s == Head(stmts)
         IN  (IF s.op = "if" THEN <<s>> \o Flatten(s.b.then) \o Flatten(s.b.else) ELSE <<s>>)
             \o Flatten(Tail(stmts))

Count(seq, P(_)) == Cardinality({ i \in DOMAIN seq : P(seq[i]) })
Once(cond) == IF cond THEN 1 ELSE 0

\* the CMake variables and definitions of the second library
Aff3ctNames ==
    {"AFF3CT_ROOT", "AFF3CT_INCLUDE_DIRS", "AFF3CT_LIBRARY", "-DHULOTTE_USE_AFF3CT",
     "-DAFF3CT_POLAR_BIT_PACKING", "-DAFF3CT_MULTI_PREC"}
Aff3ctTypes ==
    {"aff3ct::tools::RS_polynomial_generator", "aff3ct::module::Encoder_RS",
     "aff3ct::module::Decoder_RS_std"}

\* C6: for all combinations of the toggles, the build descriptor and the
\* entry-point source reference the second library (root variable, include
\* and link rules, header include) and the custom module's files if and only
\* if the toggle is enabled, each enabled feature's files exactly once.
C6_ReferencesMatchToggles ==
    (Written("CMakeLists.txt") /\ Written("src/main.cpp")) =>
        LET c == Flatten(CMakeLists)
            m == MainCpp
        IN  /\ Count(c, LAMBDA s : s.op = "set_cache" /\ s.a = "AFF3CT_ROOT") = Once(WithAff3ct)
            /\ Count(c, LAMBDA s : s.op = "include_directories" /\ s.a = "AFF3CT_INCLUDE_DIRS")
                 = Once(WithAff3ct)
            /\ Count(c, LAMBDA s : s.op = "file_glob" /\ s.a = "AFF3CT_LIBRARY") = Once(WithAff3ct)
            /\ Count(c, LAMBDA s : s.op = "set" /\ s.a = "HULOTTE_LIBS"
                                     /\ s.b = << <<"AFF3CT_LIBRARY", "">> >>) = Once(WithAff3ct)
            /\ ~WithAff3ct => Count(c, LAMBDA s : s.a \in Aff3ctNames) = 0
            /\ Count(m.includes, LAMBDA h : h = "<aff3ct.hpp>") = Once(WithAff3ct)
            /\ ~WithAff3ct => Count(m.modules, LAMBDA d : d.type \in Aff3ctTypes) = 0
            /\ Count(c, LAMBDA s : s.op = "add_library"
                                     /\ s.b.sources = <<"src/custom/MyModule.cpp">>) = Once(WithCustom)
            /\ ~WithCustom => Count(c, LAMBDA s : s.a = "_custom") = 0
            /\ Count(c, LAMBDA s : s.op = "target_link_libraries" /\ s.a = ""
                                     /\ s.b.libs = <<Target(Val(project_name), "_custom")>>)
                 = Once(WithCustom)
            /\ Count(c, LAMBDA s : s.op = "target_link_libraries" /\ s.a = ""
                                     /\ s.b.libs = <<HulotteLibs>>) = Once(~WithCustom)
            /\ Count(m.includes, LAMBDA h : h = "custom/MyModule.hpp") = Once(WithCustom)
            /\ Count(m.modules, LAMBDA d : d.type = "module::MyModule") = Once(WithCustom)

\* C6 witness: both files written with both features enabled
C6_Witness ==
    /\ Written("CMakeLists.txt") /\ Written("src/main.cpp")
    /\ WithAff3ct /\ WithCustom
    /\ Count(MainCpp.includes, LAMBDA h : h = "<aff3ct.hpp>") = 1

\* the files every successful run writes, and the custom-module pair
AlwaysFiles == {"CMakeLists.txt", "src/main.cpp", ".gitignore", "build.sh", "README.md"}
CustomFiles == {"src/custom/MyModule.hpp", "src/custom/MyModule.cpp"}

Succeeded == pc = "done" /\ result = Some(TRUE)

\* C7: a successful run into an empty target emits exactly the build
\* descriptor, the entry point, the ignore-file, the executable build script
\* and the README, plus the custom-module pair iff use_custom_module; for
\* {name=demo, library_b=false, custom=true} the README declares the custom
\* module enabled and the second library disabled.
C7_ArtifactSet ==
    Succeeded =>
        /\ DOMAIN files = AlwaysFiles \cup (IF WithCustom THEN CustomFiles ELSE {})
        /\ files["build.sh"].mode = ModeExec
        /\ (project_name = Some(Demo) /\ ~WithAff3ct /\ WithCustom)
             => /\ Readme.title = Demo
                /\ Readme.features.custom = CheckMark
                /\ Readme.features.aff3ct = CrossMark

\* C7 witness: the run of the example scenario has succeeded
C7_Witness ==
    /\ Succeeded /\ project_name = Some(Demo) /\ ~WithAff3ct /\ WithCustom
    /\ CustomFiles \subseteq DOMAIN files

\* the mandatory library's artifact is missing at its conventional path
StreampuLibMissing == <<Val(streampu_dir), LibStreampu>> \notin fs
\* the descriptor's glob for the second library's artifact matches
Aff3ctLibFound ==
    WithAff3ct /\ Glob(Val(aff3ct_dir), "build/lib/libaff3ct*.a") # <<>>

\* C8 as claimed: in every toggle combination and filesystem state the
\* configure step fails with a fatal message whenever libstreampu.a is
\* missing under STREAMPU_ROOT.
C8_FatalWheneverStreampuLibMissing ==
    (build.runs > 0 /\ StreampuLibMissing) => (last.fatal /\ last.cmake # 0)

\* C8 amended: the configure step fails with a fatal message whenever
\* libstreampu.a is missing under STREAMPU_ROOT, unless use_library_b is
\* enabled and an AFF3CT library matches AFF3CT_ROOT/build/lib/libaff3ct*.a;
\* in that case the descriptor links the bundled library only and does not
\* look for libstreampu.a.
C8_FatalUnlessBundledLibFound ==
    (build.runs > 0 /\ StreampuLibMissing /\ ~Aff3ctLibFound)
        => (last.fatal /\ last.cmake # 0)

\* C8 witness: configure ended fatally in the fallback branch of a project
\* with library_b enabled
C8_Witness ==
    /\ build.runs > 0 /\ StreampuLibMissing /\ WithAff3ct /\ ~Aff3ctLibFound
    /\ last.fatal

\* C9: the build script exits non-zero whenever its cmake step or its make
\* step fails, also when a build directory from an earlier run exists.
C9_ExitNonZeroWhenBuildFails ==
    (build.runs > 0 /\ (last.cmake # 0 \/ last.make # 0)) => last.exit # 0

\* the -D arguments of a cmake command line
HasArg(dargs, var) == \E i \in DOMAIN dargs : dargs[i][1] = var
ArgValue(dargs, var) == dargs[CHOOSE i \in DOMAIN dargs : dargs[i][1] = var][2]
ReadmeCmake ==
    Readme.manual[CHOOSE i \in DOMAIN Readme.manual : Readme.manual[i].cmd = "cmake"]

\* C10: the build script and the README's manual command pass a root-path
\* parameter for every enabled library root, with the configured path as its
\* value, and none for the second library when use_library_b is false.
C10_RootParametersMatchEnabledRoots ==
    (Written("build.sh") /\ Written("README.md")) =>
        \A dargs \in {CmakeCommand(BuildSh).a, ReadmeCmake.a} :
            /\ HasArg(dargs, "STREAMPU_ROOT")
            /\ ArgValue(dargs, "STREAMPU_ROOT") = Val(streampu_dir)
            /\ HasArg(dargs, "AFF3CT_ROOT") <=> WithAff3ct
            /\ WithAff3ct => ArgValue(dargs, "AFF3CT_ROOT") = Val(aff3ct_dir)

(***************************************************************************)
(* C11: determinism of the synthesis                                       *)
(***************************************************************************)
\* the content create_project gives the file at relative path f when it runs
\* in working directory wd with the configuration of this state
ArtifactFrom(f, wd) ==
    CASE f = "CMakeLists.txt" ->
           create_cmakelists(Val(project_name), wd, streampu_dir, aff3ct_dir,
                             Val(use_aff3ct), Val(use_custom))
      [] f = "src/main.cpp" -> create_main_cpp(Val(use_custom), Val(use_aff3ct))
      [] f = "src/custom/MyModule.hpp" -> create_custom_module.header
      [] f = "src/custom/MyModule.cpp" -> create_custom_module.implementation
      [] f = ".gitignore" -> gitignore
      [] f = "build.sh" -> build_script(Val(project_name), streampu_dir, aff3ct_dir, wd)
      [] f = "README.md" ->
           readme(Val(project_name), streampu_dir, aff3ct_dir, wd,
                  Val(use_aff3ct), Val(use_custom))

\* C11: the artifacts are a function of the configuration (name, output
\* directory, library roots, toggles) alone: every file written is what a
\* run with the same configuration writes from any other working directory.
C11_ArtifactsDependOnConfigurationOnly ==
    \A f \in DOMAIN files : \A wd \in Cwds :
        files[f].content = ArtifactFrom(f, wd)

(***************************************************************************)
(* C12: order of the stages of one acquisition                             *)
(***************************************************************************)
\* the stage of the acquisition pipeline an entry of trace belongs to:
\* 1 target check, 2 version resolution, 3 retrieve, 4 configure, 5 compile,
\* 6 verify
StageOf(e) ==
    CASE e.op \in {"exists", "rm -rf"} -> 1
      [] e.op = "ask_yes_no" -> IF e.arg = "delete and reinstall?" THEN 1 ELSE 2
      [] e.op \in {"git ls-remote", "input"} -> 2
      [] e.op = "git clone" -> 3
      [] e.op = "cmake" -> 4
      [] e.op = "make" -> 5
      [] e.op = "verify" -> 6

\* C12: within one acquisition nothing of a stage happens after something of
\* a later stage: target check, version resolution, clone, configure,
\* compile, verify; the remote tag query and the version prompt never come
\* before the target check.
C12_StagesInOrder ==
    \A i, j \in DOMAIN trace :
        i < j => StageOf(trace[i]) <= StageOf(trace[j])

(***************************************************************************)
(* C13: declining to reinstall                                             *)
(***************************************************************************)
\* the entries of a log or trace s that are about op
Entries(s, op) == {i \in DOMAIN s : s[i].op = op}

\* the running or latest acquisition was skipped: the directory was there
\* and the operator declined to delete and reinstall
Skipped ==
    \E i \in Entries(trace, "ask_yes_no") :
        trace[i].arg = "delete and reinstall?" /\ ~trace[i].ok

\* what main does about the acquisition that just returned: the entries of
\* log after the latest return of install_aff3ct / install_streampu
AfterReturn ==
    LET returns == Entries(log, "install_aff3ct") \cup Entries(log, "install_streampu")
        latest == CHOOSE i \in returns : \A k \in returns : k <= i
    IN  IF returns = {} THEN <<>> ELSE SubSeq(log, latest + 1, Len(log))

\* C13: a skipped acquisition runs none of the other stages, is not reported
\* as a failed installation, is not followed by the question 'Continue
\* anyway?', and does not make the run exit with 1.
C13_SkipIsNotAnError ==
    (Skipped /\ ~Installing /\ ipc # "raised") =>
        /\ \A i \in DOMAIN trace : StageOf(trace[i]) = 1
        /\ Entries(AfterReturn, "print_error") = {}
        /\ ipc # "aff3ct_continue"
        /\ \A i \in Entries(AfterReturn, "ask_yes_no") : AfterReturn[i].arg # "Continue anyway?"

(***************************************************************************)
(* C14: a failed stage ends the acquisition                                *)
(***************************************************************************)
\* entry i of trace comes after a successful run of op
After(i, op) ==
    \E k \in Entries(trace, op) : k < i /\ trace[k].ok

\* the acquisition trace is about: the remote queried by its first entry
TraceKind == trace[1].arg

\* the latest acquisition has returned None to main
ReturnedNone ==
    /\ ~Installing
    /\ IF TraceKind = "aff3ct" THEN aff3ct_info = None ELSE streampu_info = None
    /\ \E i \in Entries(log, IF TraceKind = "aff3ct" THEN "install_aff3ct"
                            ELSE "install_streampu") : ~log[i].ok

\* C14: configure runs only after a successful clone, compile only after a
\* successful configure, verify only after a successful compile; a failed
\* clone, configure or compile is the last thing the acquisition does, and the
\* acquisition returns failure.
C14_FailedStageEndsAcquisition ==
    \A i \in DOMAIN trace :
        /\ trace[i].op = "cmake" => After(i, "git clone")
        /\ trace[i].op = "make" => After(i, "cmake")
        /\ trace[i].op = "verify" => After(i, "make")
        /\ (trace[i].op \in {"git clone", "cmake", "make"} /\ ~trace[i].ok) =>
              i = Len(trace) /\ ReturnedNone

\* a standalone acquisition whose clone and configure succeeded and whose
\* compile failed on a machine with a known CPU count
C14_Witness ==
    /\ trace # <<>>
    /\ TraceKind = "streampu"
    /\ cpu_count # None
    /\ trace[Len(trace)].op = "make"
    /\ ~trace[Len(trace)].ok
    /\ After(Len(trace), "cmake")
    /\ streampu_info = None

(***************************************************************************)
(* C15: the verify stage                                                   *)
(***************************************************************************)
\* the primary artifact of each kind and the naming pattern of its library
Canonical(kind) == IF kind = "aff3ct" THEN LibAff3ctCanonical ELSE LibStreampuCanonical
ExpectedPattern(kind) ==
    IF kind = "aff3ct" THEN <<"libaff3ct", "-", "*", ".a">>
    ELSE <<"libstreampu", "-", "*", ".a">>

\* what the acquisition of kind returned, and the primary library it reports
Info(kind) == IF kind = "aff3ct" THEN aff3ct_info ELSE streampu_info
PrimaryLibrary(kind) ==
    IF kind = "aff3ct" THEN Val(aff3ct_info).aff3ct_lib ELSE Val(streampu_info).streampu_lib

\* the latest acquisition went through its verify stage
Verified ==
    trace # <<>> /\ trace[Len(trace)].op = "verify"

\* C15: in the verify stage of either kind the primary artifact at its
\* canonical path is accepted; if it is absent and exactly one file matches
\* the naming pattern, the acquisition succeeds and reports that file; if it
\* is absent and no file matches, the acquisition fails.
C15_VerifyFallsBackToPattern ==
    Verified =>
        LET kind == TraceKind
            matches == InstallerGlob(kind, "build/lib", ExpectedPattern(kind))
        IN  /\ Canonical(kind) \in tree =>
                  Info(kind) # None /\ PrimaryLibrary(kind) = Canonical(kind)
            /\ (Canonical(kind) \notin tree /\ Cardinality(matches) = 1) =>
                  Info(kind) # None /\ PrimaryLibrary(kind) \in matches
            /\ (Canonical(kind) \notin tree /\ matches = {}) => Info(kind) = None

(***************************************************************************)
(* C16: the result of a bundled acquisition                                *)
(***************************************************************************)
\* the bundled acquisition went through verify and found its primary library
PrimaryVerified ==
    /\ Verified
    /\ TraceKind = "aff3ct"
    /\ \/ LibAff3ctCanonical \in tree
       \/ InstallerGlob("aff3ct", "build/lib", ExpectedPattern("aff3ct")) # {}

\* C16: a bundled acquisition whose primary library was verified succeeds
\* whether or not the secondary library is found; its result holds the root
\* and the primary library file, and holds the secondary library's root and
\* file exactly when that library exists in the bundle's build output.
C16_SecondaryIsOptional ==
    PrimaryVerified =>
        /\ aff3ct_info # None
        /\ {"aff3ct_root", "aff3ct_lib"} \subseteq DOMAIN Val(aff3ct_info)
        /\ Val(aff3ct_info).aff3ct_root = TopDir("aff3ct")
        /\ Val(aff3ct_info).aff3ct_lib \in tree
        /\ "streampu_root" \in DOMAIN Val(aff3ct_info) <=> LibStreampuBundled \in tree
        /\ "streampu_lib" \in DOMAIN Val(aff3ct_info) <=> LibStreampuBundled \in tree
        /\ LibStreampuBundled \in tree =>
              Val(aff3ct_info).streampu_lib = LibStreampuBundled

\* a bundled acquisition that succeeded without the secondary library
C16_Witness ==
    /\ PrimaryVerified
    /\ LibStreampuBundled \notin tree
    /\ aff3ct_info # None
    /\ ipc = "ask_streampu"

(***************************************************************************)
(* C17: going on after a failed install                                    *)
(***************************************************************************)
\* the latest acquisition ended in an error: it returned None and was not
\* skipped
AcquisitionFailed ==
    trace # <<>> /\ ReturnedNone /\ ~Skipped

\* the operator answered yes to 'Continue anyway?' after the latest return
Consented ==
    \E i \in Entries(AfterReturn, "ask_yes_no") :
        AfterReturn[i].arg = "Continue anyway?" /\ AfterReturn[i].ok

\* the run is still waiting at 'Continue anyway?', or has stopped
WaitingOrStopped ==
    \/ ipc \in {"aff3ct_continue", "raised"}
    \/ exit_code = Some(1)

\* C17: after an install (bundled or standalone) that ended in an error, the
\* run goes on to its next step only if the operator answered yes to the
\* continue question.
C17_ContinuesOnlyWithConsent ==
    AcquisitionFailed => (Consented \/ WaitingOrStopped)

(***************************************************************************)
(* C18: the exit code of the installer                                     *)
(***************************************************************************)
MissingPrerequisite ==
    \E i \in DOMAIN Prerequisites : Prerequisites[i] \notin which

\* the last thing main did was to take no for an answer to 'Continue anyway?'
Declined ==
    /\ log # <<>>
    /\ log[Len(log)].op = "ask_yes_no"
    /\ log[Len(log)].arg = "Continue anyway?"
    /\ ~log[Len(log)].ok

\* ... and the question followed a failed install: of the Python environment
\* (no acquisition has run yet) or of an acquisition that was not skipped
DeclinedAfterFailure ==
    Declined /\ (trace = <<>> \/ ~Skipped)

\* C18: a run that main completes exits with 1 exactly when a prerequisite
\* binary is missing or the operator declined to continue after a failed
\* install, and with 0 otherwise; with a prerequisite missing no environment
\* setup and no acquisition is started.
C18_ExitCode ==
    ipc = "done" =>
        /\ exit_code \in {Some(0), Some(1)}
        /\ exit_code = Some(1) <=> (MissingPrerequisite \/ DeclinedAfterFailure)
        /\ MissingPrerequisite =>
              /\ Entries(log, "setup_python_environment") = {}
              /\ Entries(log, "ask_yes_no") = {}
              /\ trace = <<>>
              /\ tree \subseteq {TopDir("aff3ct"), TopDir("streampu")}

(***************************************************************************)
(* C19: parallelism of the compile stage                                   *)
(***************************************************************************)
\* the fallback of get_cpu_cores when the core count cannot be detected
FallbackCores == "4"

\* C19: make is run with -j<n> where n is the detected CPU core count, or
\* the fallback 4 when detection gives no value; n is always a positive
\* integer.
C19_JobsAreCoreCountOrFallback ==
    \A i \in Entries(trace, "make") :
        /\ trace[i].arg = IF cpu_count = None THEN FallbackCores ELSE Str(Val(cpu_count))
        /\ JobsAccepted(trace[i].arg)

C21_NonInteractiveRootsNeverBlock ==
    ~Interactive =>
        /\ ask = Idle
        /\ prompted \cap {"streampu_root", "aff3ct_root"} = {}

(***************************************************************************)
(* C22: what the name prompt accepts                                       *)
(***************************************************************************)
\* C22: at the name prompt a response is accepted if and only if it is
\* non-empty and all its characters are in [A-Za-z0-9_-] (so "_-" is
\* accepted and a name with a non-ASCII letter is rejected), and the name
\* the prompt returns is such a name.
C22_NamePromptAcceptsThePattern ==
    /\ (pc = "project_name" /\ project_name = None) =>
          \A typed \in Names :
              LET response == NameResponse(typed, DefaultName)
              IN  NameAccepted(response) <=> MatchesNamePattern(response)
    /\ (Interactive /\ project_name # None) => MatchesNamePattern(Val(project_name))

(***************************************************************************)
(* C23: the validate-then-retry loop of the root prompts                   *)
(***************************************************************************)
InRootPrompt == pc \in {"streampu_root", "aff3ct_root"} /\ ask # Idle

\* a step of the root prompt that is not cut short by an exception
PromptStep == InRootPrompt /\ pc' # "raised" /\ <<ask, prompted>>' # <<ask, prompted>>

\* the step in which ask_streampu_root / ask_aff3ct_root returns
RootReturned == PromptStep /\ ask' = Idle

ReturnedRoot ==
    IF pc = "streampu_root" THEN Val(streampu_dir') ELSE Val(aff3ct_dir')

\* the step in which ask_path returns a path to the loop around it
PathReturned == PromptStep /\ ask.at \in {"path", "try_anyway"}
                           /\ (ask' = Idle \/ ask'.at = "try_another")

ReturnedPath == IF ask' = Idle THEN ReturnedRoot ELSE ask'.path

\* C23: a root without its defining artifact is returned only from the
\* question "Try another path?", which only the answers n and no decline;
\* ask_path returns a path that does not exist only from the question "Try
\* anyway?", which only the answers y and yes accept; every other step of
\* the prompt asks again without returning anything; and a root whose
\* artifact is present never reaches the question "Try another path?".
C23_RetryLoop ==
    [][ /\ RootReturned /\ <<ReturnedRoot, DefiningArtifact>> \notin fs
            => ask.at = "try_another" /\ ask.path = ReturnedRoot
        /\ PathReturned /\ <<ReturnedPath, "">> \notin fs
            => ask.at = "try_anyway" /\ Resolve(ask.path) = ReturnedPath
        /\ PromptStep /\ ~RootReturned
            => /\ ask'.at \in {"path", "try_anyway", "try_another"}
               /\ UNCHANGED <<pc, streampu_dir, aff3ct_dir>>
        /\ PromptStep /\ ask'.at = "try_another"
            => <<ask'.path, DefiningArtifact>> \notin fs
        /\ \A response \in YesNoResponses :
             /\ ask_yes_no(response, TRUE) = Some(FALSE) <=> response \in {"n", "no"}
             /\ ask_yes_no(response, FALSE) = Some(TRUE) <=> response \in {"y", "yes"}
      ]_vars

\* the StreamPU prompt returned a path that does not exist, and so a root
\* without libstreampu.a
C23_Witness ==
    /\ "streampu_root" \in prompted
    /\ streampu_dir # None
    /\ <<Val(streampu_dir), "">> \notin fs
    /\ <<Val(streampu_dir), LibStreampu>> \notin fs

(***************************************************************************)
(* C24: version resolution                                                 *)
(***************************************************************************)
\* the remote tag query of the acquisition succeeded
Queried == trace[1].ok

\* the operator kept the newest tag offered
KeptLatest == Queried /\ trace[2].ok

\* what the operator entered at "Enter ... tag/branch", "" when not asked
TypedReference == IF KeptLatest THEN "" ELSE trace[IF Queried THEN 3 ELSE 2].arg

\* C24: the acquisition starts with the tag query; when it succeeded the
\* newest tag is offered and Enter keeps it, when it failed the acquisition
\* goes on to ask for a tag; the reference is the operator's entry when there
\* is one, the newest tag when there is none and the query succeeded, and
\* absent exactly when the query failed and nothing was entered; git clone
\* carries --branch with that reference, and no --branch when it is absent.
C24_VersionResolution ==
    trace # <<>> =>
        /\ trace[1].op = "git ls-remote"
        /\ Queried => trace[2].op = "ask_yes_no" /\ trace[2].arg = "Use latest?"
        /\ installer_ask_yes_no("", TRUE) = Some(TRUE)
        /\ ~KeptLatest => trace[IF Queried THEN 3 ELSE 2].op = "input"
        /\ (Installing /\ stage # "choose_version") =>
              /\ TypedReference # "" => tag = Some(TypedReference)
              /\ (TypedReference = "" /\ Queried) => tag = Some(LatestTag)
              /\ tag = None <=> (~Queried /\ TypedReference = "")
        /\ \A i \in Entries(trace, "git clone") :
              /\ TypedReference # "" => trace[i].arg = TypedReference
              /\ (TypedReference = "" /\ Queried) => trace[i].arg = LatestTag
              /\ trace[i].arg = "" <=> (~Queried /\ TypedReference = "")

\* the tag query failed, nothing was entered, and the default branch was
\* cloned
C24_Witness ==
    /\ trace # <<>>
    /\ ~Queried
    /\ TypedReference = ""
    /\ \E i \in Entries(trace, "git clone") : trace[i].arg = "" /\ trace[i].ok

(***************************************************************************)
(* C25: the order of the writes, and what a failure leaves behind          *)
(***************************************************************************)
WriteOrder ==
    <<"CMakeLists.txt", "src/main.cpp", "src/custom/MyModule.hpp",
      "src/custom/MyModule.cpp", ".gitignore", "build.sh", "README.md">>

\* the artifacts of WriteOrder that this run is to write
Planned ==
    SelectSeq(WriteOrder, LAMBDA f : f \in CustomFiles => WithCustom)

FirstPlanned(k) == {Planned[i] : i \in 1..k}

\* the run was abandoned on an exception raised while it was writing
WriteFailed == pc = "raised" /\ dirs # {}

\* C25: at every moment the files on disk are the first k artifacts of the
\* fixed order (the custom-module pair left out when it is disabled); a step
\* that writes adds artifact k + 1 and changes none of the first k; when
\* creating the project directory fails the run returns False with nothing
\* written, and when a later directory or a write fails the run ends with
\* exit status 1 and no return value, the artifacts written before staying as
\* they are; only a run that wrote them all returns True.
C25_OrderedWritesNoRollback ==
    /\ [](/\ \E k \in 0..Len(Planned) : DOMAIN files = FirstPlanned(k)
          /\ result = Some(FALSE) => files = <<>> /\ exit_code \in {None, Some(1)}
          /\ pc = "raised" => result = None /\ exit_code = Some(1)
          /\ result = Some(TRUE) <=> (dirs # {} /\ DOMAIN files = FirstPlanned(Len(Planned))))
    /\ [][ /\ \A f \in DOMAIN files : f \in DOMAIN files' /\ files'[f] = files[f]
           /\ files' # files =>
                \E k \in 0..(Len(Planned) - 1) :
                    /\ DOMAIN files = FirstPlanned(k)
                    /\ DOMAIN files' = FirstPlanned(k + 1)
         ]_vars

\* the run was abandoned after the entry-point source and before the
\* ignore-file
C25_Witness ==
    /\ WriteFailed
    /\ exit_code = Some(1)
    /\ "src/main.cpp" \in DOMAIN files
    /\ ".gitignore" \notin DOMAIN files

(***************************************************************************)
(* C26: runs repeated into the same project directory                      *)
(***************************************************************************)
\* the files the configuration of the latest run calls for
ArtifactSet == AlwaysFiles \cup (IF WithCustom THEN CustomFiles ELSE {})

\* C26: after any sequence of successful runs into the same project
\* directory the files on disk are exactly the artifact set of the latest
\* run's configuration, each with the content that run gives it; after a run
\* with the custom module and one without, no custom-module file remains.
C26_DiskIsLatestArtifactSet ==
    Succeeded =>
        /\ DOMAIN files = ArtifactSet
        /\ \A f \in DOMAIN files \cap ArtifactSet :
              files[f].content = ArtifactFrom(f, Resolve(cwd))

(***************************************************************************)
(* C27: add_custom_module.py reading the project name back                 *)
(***************************************************************************)
\* line 229 of create_project.py: the text of the project statement, one
\* element per character of the name and per piece of fixed text
ProjectLine(stmt) ==
    <<"project(">> \o stmt.b.target.name \o <<" ", "LANGUAGES", " ", "CXX", ")">>

\* what \w matches: letters (those outside ASCII too), digits, underscore
IsWordChar(c) == c \in AsciiLetters \cup Digits \cup {"_", NonAscii, "LANGUAGES", "CXX"}

\* the longest run of \w at the start of s
RECURSIVE WordPrefix(_)
WordPrefix(s) ==
    IF s = <<>> \/ ~IsWordChar(Head(s)) THEN <<>>
    ELSE <<Head(s)>> \o WordPrefix(Tail(s))

\* get_project_name (add_custom_module.py, lines 28-41): group 1 of
\* project\((\w+) in the first line that starts with project( and matches,
\* None without CMakeLists.txt or without a match
get_project_name(project_files) ==
    IF "CMakeLists.txt" \notin DOMAIN project_files THEN None
    ELSE LET descriptor == project_files["CMakeLists.txt"].content
             matches == { i \in DOMAIN descriptor :
                             /\ descriptor[i].op = "project"
                             /\ WordPrefix(Tail(ProjectLine(descriptor[i]))) # <<>> }
         IN  IF matches = {} THEN None
             ELSE LET first == CHOOSE i \in matches : \A k \in matches : i <= k
                  IN  Some(WordPrefix(Tail(ProjectLine(descriptor[first]))))

\* C27: once the build descriptor of a project whose name is made of
\* letters, digits, underscores and hyphens is written, get_project_name
\* reads that same name back from it.
C27_NameReadsBack ==
    (Written("CMakeLists.txt") /\ MatchesNamePattern(Val(project_name))) =>
        get_project_name(files) = project_name

(***************************************************************************)
(* C28: the roots an acquisition reports, as StreamPU roots of a project   *)
(***************************************************************************)
\* Path(root) / "build" / "lib" / "libstreampu.a" (create_project.py, line
\* 189), for a root inside the Hulotte checkout
StreampuLibUnder(root) ==
    Path(root.root,
         IF root.dir = "" THEN "build/lib" ELSE root.dir \o "/" \o "build/lib",
         <<"libstreampu", ".a">>)

\* what ask_streampu_root checks of a root (create_project.py, lines 189-190)
PassesStreampuValidation(root) == StreampuLibUnder(root) \in tree

\* C28: every StreamPU root that a successful acquisition reports, the
\* standalone one and the one bundled with AFF3CT, has build/lib/libstreampu.a
\* under it.
C28_ReportedRootsValidate ==
    /\ (streampu_info # None) => PassesStreampuValidation(Val(streampu_info).streampu_root)
    /\ (aff3ct_info # None /\ "streampu_root" \in DOMAIN Val(aff3ct_info))
          => PassesStreampuValidation(Val(aff3ct_info).streampu_root)

====
